---- MODULE Spec2Model ----
(***************************************************************************)
(* A model of theano/sandbox/gpuarray/dnn.py: the cuDNN availability gate  *)
(* (dnn_available / version), the convolution entry point dnn_conv with    *)
(* GpuDnnConv.get_out_shape, the lift rules, the hard-fail optimizer       *)
(* NoCuDNNRaise and the in-place rewrite rules.                            *)
(*                                                                         *)
(* Python values are encoded as follows: None is the string "None", the    *)
(* booleans stored in dnn_available.avail are "True" / "False" (the field  *)
(* holds None, True or False), a str whose characters matter is a sequence *)
(* of one-character strings, a tuple is a sequence.  A call returns a      *)
(* record [st, exc, val]: the gate after the call, the exception raised    *)
(* ("" when the call returned) and the value returned (or, when it raised, *)
(* the text of the exception).                                             *)
(***************************************************************************)
EXTENDS Integers, Sequences, FiniteSets, TLC

VARIABLES
    env,      \* what the process finds: pygpu, device, toolchain, cuDNN, config
    gate,     \* dnn_available.avail, dnn_available.msg, version.v + probe counts
    ncalls,   \* operations performed so far
    first_failed, \* whether the first dnn_available() call of the process failed
    last,     \* the last operation, its pre-state and its outcome
    cin,      \* the arguments of the function under study
    cout,     \* what the function returned or raised on cin
    threads   \* the threads inside dnn_available(): position and locals

vars == <<env, gate, ncalls, first_failed, last, cin, cout, threads>>

\* ------------------------------------------------------------------ bounds
MaxCalls == 3
MaxDim == 3       \* image extent per spatial dimension
MaxKern == 2      \* kernel extent per spatial dimension
MaxStride == 2
MaxPad == 1

\* --------------------------------------------------------------- constants
None == "None"
NoneV == -1                \* version.v = None
V2 == 2000                 \* oldest supported release
V3 == 3000                 \* first v3 release candidate
V3Final == 3007            \* v3 final

\* ----------------------------------------------------------------- strings
Ord(c) ==
    CASE c = "0" -> 48 [] c = "1" -> 49 [] c = "2" -> 50 [] c = "3" -> 51
      [] c = "4" -> 52 [] c = "5" -> 53 [] c = "6" -> 54 [] c = "7" -> 55
      [] c = "8" -> 56 [] c = "9" -> 57 [] c = "_" -> 95 [] c = "c" -> 99
      [] c = "m" -> 109 [] c = "p" -> 112 [] c = "s" -> 115 [] c = "u" -> 117
      [] c = "a" -> 97 [] c = "d" -> 100 [] c = "e" -> 101 [] c = "l" -> 108
      [] c = "n" -> 110 [] c = "o" -> 111

RECURSIVE StrLess(_, _)
\* Python's a < b on str: lexicographic by code point, a proper prefix is less
StrLess(a, b) ==
    IF b = <<>> THEN FALSE
    ELSE IF a = <<>> THEN TRUE
    ELSE IF Ord(Head(a)) # Ord(Head(b)) THEN Ord(Head(a)) < Ord(Head(b))
    ELSE StrLess(Tail(a), Tail(b))

\* s[:-2]
DropLast2(s) == IF Len(s) <= 2 THEN <<>> ELSE SubSeq(s, 1, Len(s) - 2)

\* s.startswith(p)
StartsWith(s, p) == Len(s) >= Len(p) /\ SubSeq(s, 1, Len(p)) = p

\* ------------------------------------------------------------- call results
Return(st, val) == [st |-> st, exc |-> "", val |-> val]
Raise(st, exc, text) == [st |-> st, exc |-> exc, val |-> text]

\* ------------------------------------------------------- availability gate
MsgPyGPU == "PyGPU not available"
MsgNotCuda == "Not on a CUDA device"
MsgDevice == "Device not supported by cuDNN"
MsgCompile == "Theano cannot compile with cuDNN"
MsgOld == "You have an old release of CuDNN"
MsgRC == "You have installed a release candidate of CuDNN v3"
MsgMixed == "Mixed dnn version"
MsgNoVersion == "We can't determine the cudnn version as it is not available"

\* GCC_compiler.try_flags(...): one trial compile/link, its verdict is comp
try_flags(st, e) ==
    [st |-> [st EXCEPT !.ncompile = @ + 1], comp |-> e.comp]

\* f = theano.function([], DnnVersion()()); v = f(): (CUDNN_VERSION, cudnnGetVersion())
DnnVersion(st, e) ==
    [st |-> [st EXCEPT !.nprobe = @ + 1], v |-> <<e.hdr, e.lib>>]

\* version(), lines 186-199, given what its call of dnn_available() (line 185)
\* gave: a = [st, exc, val]
version_body(a, e) ==
    IF a.exc # "" THEN a
    ELSE IF a.val # "True" THEN Raise(a.st, "Exception", a.st.msg)
    ELSE IF a.st.v = NoneV THEN
        LET p == DnnVersion(a.st, e)
        IN  IF p.v[1] # p.v[2] THEN Raise(p.st, "RuntimeError", MsgMixed)
            ELSE Return([p.st EXCEPT !.v = p.v[2]], p.v[2])
    ELSE Return(a.st, a.st.v)

\* dnn_available(), lines 36-37: the verdict is cached
dnn_available_cached(st) == Return(st, st.avail)

\* mutant of dnn_available_version_check: the release candidates of v3 pass
dnn_available_version_check_rc_accepted(r) ==
    IF r.exc # "" THEN r
    ELSE IF r.val < V2 THEN
        Raise([r.st EXCEPT !.avail = "False", !.msg = MsgOld],
              "RuntimeError", MsgOld)
    ELSE Return(r.st, r.st.avail)

\* dnn_available(), lines 86-100, given what its call of version() (line 85)
\* gave: r = [st, exc, val]
dnn_available_version_check(r) ==
    IF r.exc # "" THEN r
    ELSE IF r.val < V2 THEN
        Raise([r.st EXCEPT !.avail = "False", !.msg = MsgOld],
              "RuntimeError", MsgOld)
    ELSE IF r.val >= V3 /\ r.val < V3Final THEN
        Raise([r.st EXCEPT !.avail = "False", !.msg = MsgRC],
              "RuntimeError", MsgRC)
    ELSE Return(r.st, r.st.avail)

\* dnn_available(), lines 78-100, given what the trial compilation
\* (lines 71-77) gave: t = [st, comp].  The call of version() (line 85) calls
\* dnn_available() back (line 185) after line 78 has stored the verdict of
\* the compiler, so that inner call returns the cached verdict at line 37.
dnn_available_compiled(t, e) ==
    IF ~t.comp
    THEN Return([t.st EXCEPT !.avail = "False", !.msg = MsgCompile], "False")
    ELSE dnn_available_version_check(
             version_body(dnn_available_cached([t.st EXCEPT !.avail = "True"]),
                          e))

\* dnn_available(), lines 46-50: the device check stores a verdict and a
\* message and falls through to the trial compilation
dnn_available_device_check(st, e) ==
    IF StrLess(DropLast2(e.bin_id), <<"3", "0">>)
    THEN [st EXCEPT !.msg = MsgDevice, !.avail = "False"]
    ELSE st

\* dnn_available()
dnn_available(st, e) ==
    IF st.avail # None THEN dnn_available_cached(st)
    ELSE IF ~e.pygpu THEN
        Return([st EXCEPT !.msg = MsgPyGPU, !.avail = "False"], "False")
    ELSE IF ~StartsWith(e.device, <<"c", "u", "d", "a">>) THEN
        Return([st EXCEPT !.msg = MsgNotCuda, !.avail = "False"], "False")
    ELSE dnn_available_compiled(
             try_flags(dnn_available_device_check(st, e), e), e)

\* version()
version(st, e) == version_body(dnn_available(st, e), e)

\* ------------------------------------------------------------ configuration
\* config.dnn.conv.algo_fwd / algo_bwd as the process was configured
AlgoFwd(e) == e.algo_fwd
AlgoBwd(e) == e.algo_bwd

FwdAlgos == {"none", "small", "large", "fft", "guess_once",
             "guess_on_shape_change", "time_once", "time_on_shape_change"}
BwdAlgos == {"none", "deterministic", "fft", "guess_once",
             "guess_on_shape_change", "time_once", "time_on_shape_change"}
V3Algos == {"fft", "guess_once", "guess_on_shape_change", "time_once",
            "time_on_shape_change"}

\* ------------------------------------------------------- tuples and shapes
\* a border_mode is [kind, pad]: kind "valid" / "full" (the two names), "int"
\* (pad = <<n>>), "tuple" (pad = the tuple) or "other" (any other value)
BM(kind, pad) == [kind |-> kind, pad |-> pad]
BMValid == BM("valid", <<>>)
BMFull == BM("full", <<>>)

RECURSIVE SeqMin(_)
SeqMin(s) == IF Len(s) = 1 THEN s[1]
             ELSE LET m == SeqMin(Tail(s)) IN IF s[1] < m THEN s[1] ELSE m

\* (x,) * n
Repeat(x, n) == [i \in 1..n |-> x]

\* x.dimshuffle(*pattern) on a shape; pattern is 0-based as in the source
DimShuffle(shape, pattern) == [i \in 1..Len(pattern) |-> shape[pattern[i] + 1]]

\* shape_i(x, i, fgraph) on a shape
shape_i(shape, i) == shape[i + 1]

\* a tensor variable: its runtime shape (ndim = Len(shape)), the op that owns
\* it and its dtype
NoOwner == [kind |-> "None"]
Tensor(shape, owner, dtype) == [shape |-> shape, owner |-> owner, dtype |-> dtype]
ndim(x) == Len(x.shape)

\* ------------------------------------------------------ GpuDnnConvDesc
\* mutant of GpuDnnConvDesc: the sign of the pads is not tested
GpuDnnConvDesc_sign_unchecked(border_mode, subsample, conv_mode) ==
    LET bm1 == IF border_mode.kind = "int"
               THEN BM("tuple", Repeat(border_mode.pad[1], Len(subsample)))
               ELSE border_mode
    IN  IF bm1.kind = "tuple" /\ Len(bm1.pad) # Len(subsample)
        THEN [exc |-> "AssertionError", val |-> None]
        ELSE IF bm1.kind \notin {"tuple", "valid", "full"}
        THEN [exc |-> "ValueError", val |-> None]
        ELSE IF Len(subsample) \notin {2, 3}
        THEN [exc |-> "AssertionError", val |-> None]
        ELSE IF conv_mode \notin {"conv", "cross"}
        THEN [exc |-> "AssertionError", val |-> None]
        ELSE [exc |-> "",
              val |-> [kind |-> "GpuDnnConvDesc", border_mode |-> bm1,
                       subsample |-> subsample, conv_mode |-> conv_mode]]

\* GpuDnnConvDesc.__init__: [exc, val]; val is the descriptor operator
GpuDnnConvDesc(border_mode, subsample, conv_mode) ==
    LET bm1 == IF border_mode.kind = "int"
               THEN BM("tuple", Repeat(border_mode.pad[1], Len(subsample)))
               ELSE border_mode
    IN  IF bm1.kind = "tuple" /\ Len(bm1.pad) # Len(subsample)
        THEN [exc |-> "AssertionError", val |-> None]
        ELSE IF ~( (bm1.kind = "tuple" /\ Len(bm1.pad) > 0 /\ SeqMin(bm1.pad) >= 0)
                   \/ bm1.kind \in {"valid", "full"} )
        THEN [exc |-> "ValueError", val |-> None]
        ELSE IF Len(subsample) \notin {2, 3}
        THEN [exc |-> "AssertionError", val |-> None]
        ELSE IF conv_mode \notin {"conv", "cross"}
        THEN [exc |-> "AssertionError", val |-> None]
        ELSE [exc |-> "",
              val |-> [kind |-> "GpuDnnConvDesc", border_mode |-> bm1,
                       subsample |-> subsample, conv_mode |-> conv_mode]]

\* ------------------------------------------------------ convolution operators
ConvOp(kind, algo, inplace) ==
    [kind |-> kind, algo |-> algo, inplace |-> inplace,
     destroy_map |-> IF inplace THEN {<<0, 2>>} ELSE {}]

\* GpuDnnConv.__init__, lines 348-355, given the algorithm chosen (lines
\* 338-341) and what the call of version() gave: r = [st, exc, val]
GpuDnnConv_algo_check(a, inplace, r) ==
    IF r.exc # "" THEN r
    ELSE IF r.val < V3 /\ a \in V3Algos
    THEN Raise(r.st, "RuntimeError", "requires CuDNN v3")
    ELSE IF a \notin FwdAlgos THEN Raise(r.st, "AssertionError", "algo")
    ELSE Return(r.st, ConvOp("GpuDnnConv", a, inplace))

\* GpuDnnConv.__init__(algo, inplace): [st, exc, val]
GpuDnnConv(algo, inplace, st, e) ==
    GpuDnnConv_algo_check(IF algo = None THEN AlgoFwd(e) ELSE algo, inplace,
                          version(st, e))

\* GpuDnnConvGradW.__init__(inplace, algo): [st, exc, val]
GpuDnnConvGradW(inplace, algo, st, e) ==
    LET a == IF algo = None THEN AlgoBwd(e) ELSE algo
    IN  IF a \notin BwdAlgos THEN Raise(st, "AssertionError", "algo")
        ELSE Return(st, ConvOp("GpuDnnConvGradW", a, inplace))

\* GpuDnnConvGradI.__init__(inplace, algo): [st, exc, val]
GpuDnnConvGradI(inplace, algo, st, e) ==
    LET a == IF algo = None THEN AlgoBwd(e) ELSE algo
    IN  IF a \notin BwdAlgos THEN Raise(st, "AssertionError", "algo")
        ELSE Return(st, ConvOp("GpuDnnConvGradI", a, inplace))

\* constant(numpy.asarray(value, dtype=dtype)), lines 296-297: a scalar
\* constant, owned by no operator
constant(value, dtype) ==
    [shape |-> <<>>, owner |-> NoOwner, nclients |-> 1, value |-> value,
     dtype |-> dtype]

\* ensure_dt(val, default, name, dtype), lines 300-311: [exc, val].  val is
\* None (the record NoOwner) or a variable; None is replaced by a clone of
\* the default, a variable that is not a scalar is refused, and a scalar of
\* another dtype is replaced by val.astype(dtype), the output of a Cast
ensure_dt(val, default, name, dtype) ==
    IF val # NoOwner /\ val.shape # <<>>
    THEN [exc |-> "TypeError", val |-> name]
    ELSE IF (IF val = NoOwner THEN default ELSE val).dtype # dtype
    THEN [exc |-> "",
          val |-> [shape |-> <<>>,
                   owner |-> [kind |-> "Cast", dtype |-> dtype,
                              inputs |-> <<IF val = NoOwner THEN default
                                           ELSE val>>],
                   nclients |-> 1,
                   value |-> (IF val = NoOwner THEN default ELSE val).value,
                   dtype |-> dtype]]
    ELSE [exc |-> "", val |-> IF val = NoOwner THEN default ELSE val]

\* what make_node returns once its arguments are accepted, lines 417-421:
\* alpha and beta go through ensure_dt; [exc, val, inputs] with val the
\* output variable, typed like `output`, and inputs the inputs of the node
conv_make_node_return(op, a, b, output, desc, alpha, beta) ==
    IF alpha.exc # "" THEN [exc |-> alpha.exc, val |-> None]
    ELSE IF beta.exc # "" THEN [exc |-> beta.exc, val |-> None]
    ELSE [exc |-> "",
          val |-> Tensor(output.shape, op, output.dtype),
          inputs |-> <<a, b, output, desc, alpha.val, beta.val>>]

\* mutant of conv_make_node: the ranks of the three tensors are not compared
conv_make_node_ranks_not_compared(op, a, b, output, desc, alpha, beta) ==
    IF ndim(a) \notin {4, 5} \/ ndim(b) \notin {4, 5} \/ ndim(output) \notin {4, 5}
    THEN [exc |-> "TypeError", val |-> None]
    ELSE IF desc.kind # "GpuDnnConvDesc"
    THEN [exc |-> "TypeError", val |-> None]
    ELSE conv_make_node_return(op, a, b, output, desc,
             ensure_dt(alpha, constant(1, "float64"), "alpha", a.dtype),
             ensure_dt(beta, constant(0, "float64"), "beta", a.dtype))

\* make_node of the three operators on (a, b, output, desc, alpha, beta):
\* [exc, val, inputs]
conv_make_node(op, a, b, output, desc, alpha, beta) ==
    IF ndim(a) \notin {4, 5} \/ ndim(b) \notin {4, 5} \/ ndim(output) \notin {4, 5}
    THEN [exc |-> "TypeError", val |-> None]
    ELSE IF ndim(a) # ndim(b) \/ ndim(a) # ndim(output)
    THEN [exc |-> "TypeError", val |-> None]
    ELSE IF ndim(a) = 5 /\ ( (op.kind = "GpuDnnConv" /\ op.algo = "fft")
                            \/ (op.kind # "GpuDnnConv"
                                /\ op.algo \in {"fft", "deterministic"}) )
    THEN [exc |-> "ValueError", val |-> None]
    ELSE IF desc.kind # "GpuDnnConvDesc"
    THEN [exc |-> "TypeError", val |-> None]
    ELSE conv_make_node_return(op, a, b, output, desc,
             ensure_dt(alpha, constant(1, "float64"), "alpha", a.dtype),
             ensure_dt(beta, constant(0, "float64"), "beta", a.dtype))

\* GpuDnnConv.get_out_shape(ishape, kshape, border_mode, subsample): [exc, val]
get_out_shape(ishape, kshape, border_mode, subsample) ==
    LET b == ishape[1]
        h == ishape[3]
        w == ishape[4]
        nb == kshape[1]
        kh == kshape[3]
        kw == kshape[4]
        nd == Len(subsample)
        d == ishape[5]
        kd == ishape[5]
        sh == subsample[1]
        sw == subsample[2]
        sd == subsample[3]
        full == border_mode.kind = "full"
        tup == border_mode.kind = "tuple"
        padh == IF full THEN kh - 1 ELSE IF tup THEN border_mode.pad[1] ELSE 0
        padw == IF full THEN kw - 1 ELSE IF tup THEN border_mode.pad[2] ELSE 0
        \* padd is bound by the 'full' branch only when nd > 4
        padd_bound == IF full THEN nd > 4 ELSE IF tup THEN nd > 2 ELSE TRUE
        padd == IF full THEN kd - 1 ELSE IF tup THEN border_mode.pad[3] ELSE 0
        res == <<b, nb, ((h + 2 * padh - kh) \div sh) + 1,
                        ((w + 2 * padw - kw) \div sw) + 1>>
    IN  IF ~full /\ ~tup /\ border_mode.kind # "valid"
        THEN [exc |-> "AssertionError", val |-> None]
        ELSE IF nd > 2
        THEN IF ~padd_bound THEN [exc |-> "UnboundLocalError", val |-> None]
             ELSE [exc |-> "",
                   val |-> Append(res, d + 2 * padd - (kd \div sd) + 1)]
        ELSE [exc |-> "", val |-> res]

\* GpuAllocEmpty(dtype)(*shape): the output of a new allocation node of that
\* dtype on those shape inputs; the buffer has the dtype of its operator
GpuAllocEmpty(dtype, shape) ==
    Tensor(shape, [kind |-> "GpuAllocEmpty", dtype |-> dtype, inputs |-> shape],
           dtype)

\* dnn_conv, line 774: the weight-gradient special case is asked for
use_gradw(border_mode, subsample, direction_hint) ==
    /\ border_mode = BMValid
    /\ subsample = <<1, 1>>
    /\ direction_hint = "bprop weights"

\* mutant of use_gradi: the hint 'forward!' is not honoured
use_gradi_ignoring_hint(border_mode, subsample, direction_hint) ==
    /\ border_mode = BMFull
    /\ subsample = <<1, 1>>

\* dnn_conv, line 793: the input-gradient special case applies
use_gradi(border_mode, subsample, direction_hint) ==
    /\ border_mode = BMFull
    /\ subsample = <<1, 1>>
    /\ direction_hint # "forward!"

\* mutant of gradw_out_shape: the buffer is laid out before the axes are swapped
gradw_out_shape_unswapped(img1, kerns1) ==
    LET shape2 == shape_i(img1, 2) - shape_i(kerns1, 2) + 1
        shape3 == shape_i(img1, 3) - shape_i(kerns1, 3) + 1
    IN  <<shape_i(img1, 1), shape_i(kerns1, 1), shape2, shape3>>

\* dnn_conv, lines 784-787: the buffer of the weight-gradient lowering, from
\* the shapes of the dimshuffled img and kerns
gradw_out_shape(img1, kerns1) ==
    LET shape2 == shape_i(img1, 2) - shape_i(kerns1, 2) + 1
        shape3 == shape_i(img1, 3) - shape_i(kerns1, 3) + 1
    IN  <<shape_i(kerns1, 1), shape_i(img1, 1), shape2, shape3>>

\* dnn_conv, lines 801-805: the buffer of the input-gradient lowering, from
\* the shapes of img and of the dimshuffled kerns
gradi_out_shape(img, kerns1) ==
    LET shape2 == shape_i(img, 2) + shape_i(kerns1, 2) - 1
        shape3 == shape_i(img, 3) + shape_i(kerns1, 3) - 1
    IN  <<shape_i(img, 0), shape_i(kerns1, 1), shape2, shape3>>

\* Op(...)(a, b, out, desc): op = [st, exc, val] is what the constructor
\* gave; the result is [st, exc, val] with val the output variable
conv_apply_node(st, conv) ==
    IF conv.exc # "" THEN Raise(st, conv.exc, "make_node")
    ELSE Return(st, conv.val)

conv_apply(op, a, b, out, desc) ==
    IF op.exc # "" THEN op
    ELSE conv_apply_node(op.st, conv_make_node(op.val, a, b, out, desc,
                                               NoOwner, NoOwner))

\* What dnn_conv returns, given the variable r.val the convolution operator
\* gave: its shape (with the first two axes swapped back after the
\* weight-gradient lowering, line 791), the operator that owns it, its
\* descriptor and the operators built
dnn_conv_return(r, desc, swapped) ==
    IF r.exc # "" THEN r
    ELSE Return(r.st,
           [shape |-> IF swapped THEN DimShuffle(r.val.shape, <<1, 0, 2, 3>>)
                      ELSE r.val.shape,
            conv |-> r.val.owner, desc |-> desc,
            nodes |-> <<desc, r.val.owner>>])

\* dnn_conv(img, kerns, border_mode, subsample, conv_mode, direction_hint,
\*          workmem, algo): [st, exc, val]
dnn_conv(img, kerns, border_mode, subsample, conv_mode, direction_hint, workmem, algo, st, e) ==
    IF workmem # None /\ algo # None
    THEN Raise(st, "ValueError", "You can't use both algo and workmem")
    ELSE IF use_gradw(border_mode, subsample, direction_hint)
    THEN IF ndim(img) # 4 \/ ndim(kerns) # 4
         THEN Raise(st, "ValueError", "dimshuffle")
         ELSE
         LET img1 == Tensor(DimShuffle(img.shape, <<1, 0, 2, 3>>), NoOwner,
                            img.dtype)
             kerns1 == Tensor(DimShuffle(kerns.shape, <<1, 0, 2, 3>>), NoOwner,
                              kerns.dtype)
             out == GpuAllocEmpty(img.dtype,
                                  gradw_out_shape(img1.shape, kerns1.shape))
             desc == GpuDnnConvDesc(BMValid, <<1, 1>>, "cross")
         IN  IF desc.exc # "" THEN Raise(st, desc.exc, "desc")
             ELSE dnn_conv_return(
                      conv_apply(GpuDnnConvGradW(FALSE, None, st, e),
                                 img1, kerns1, out, desc.val),
                      desc.val, TRUE)
    ELSE IF use_gradi(border_mode, subsample, direction_hint)
    THEN IF ndim(kerns) # 4
         THEN Raise(st, "ValueError", "dimshuffle")
         ELSE
         LET kerns1 == Tensor(DimShuffle(kerns.shape, <<1, 0, 2, 3>>), NoOwner,
                              kerns.dtype)
             conv_mode1 == IF conv_mode = "conv" THEN "cross" ELSE "conv"
             out == GpuAllocEmpty(img.dtype,
                                  gradi_out_shape(img.shape, kerns1.shape))
             desc == GpuDnnConvDesc(BMValid, <<1, 1>>, conv_mode1)
         IN  IF desc.exc # "" THEN Raise(st, desc.exc, "desc")
             ELSE dnn_conv_return(
                      conv_apply(GpuDnnConvGradI(FALSE, None, st, e),
                                 kerns1, img, out, desc.val),
                      desc.val, FALSE)
    ELSE
         LET desc == GpuDnnConvDesc(border_mode, subsample, conv_mode)
             out_shp == get_out_shape(img.shape, kerns.shape,
                                      desc.val.border_mode,
                                      desc.val.subsample)
         IN  IF desc.exc # "" THEN Raise(st, desc.exc, "desc")
             ELSE IF out_shp.exc # ""
             THEN Raise(st, out_shp.exc, "get_out_shape")
             ELSE dnn_conv_return(
                      conv_apply(GpuDnnConv(IF workmem # None THEN workmem
                                            ELSE algo, FALSE, st, e),
                                 img, kerns,
                                 GpuAllocEmpty(img.dtype, out_shp.val),
                                 desc.val),
                      desc.val, FALSE)

\* ------------------------------------------------------------------ pooling
\* GpuDnnPoolDesc.__init__(ws, stride, mode, pad): [st, exc, val]
GpuDnnPoolDesc(ws, stride, mode, pad, st, e) ==
    LET mode1 == IF mode = "average" THEN "average_inc_pad" ELSE mode
    IN  IF mode1 \notin {"max", "average_inc_pad", "average_exc_pad"}
        THEN Raise(st, "AssertionError", "mode")
        ELSE IF ~(Len(ws) = Len(stride) /\ Len(stride) = Len(pad))
        THEN Raise(st, "AssertionError", "len")
        ELSE IF Len(ws) \notin {2, 3}
        THEN Raise(st, "AssertionError", "len(ws)")
        ELSE LET op == [kind |-> "GpuDnnPoolDesc", ws |-> ws, stride |-> stride,
                        mode |-> mode1, pad |-> pad]
             IN  IF Len(ws) = 3
                 THEN LET r == version(st, e)
                      IN  IF r.exc # "" THEN r
                          ELSE IF r.val < V3
                          THEN Raise(r.st, "RuntimeError",
                                     "CuDNN 3d pooling requires v3")
                          ELSE Return(r.st, op)
                 ELSE Return(st, op)

\* mutant of GpuDnnPool_infer_shape: the padding is left out
GpuDnnPool_infer_shape_unpadded(shape, desc) ==
    LET w == desc.ws
        s == desc.stride
        res == << shape[1][1], shape[1][2],
                  (shape[1][3] - w[1]) \div s[1] + 1,
                  (shape[1][4] - w[2]) \div s[2] + 1 >>
    IN  IF Len(w) > 2
        THEN << Append(res, (shape[1][5] - w[3]) \div s[3] + 1) >>
        ELSE << res >>

\* GpuDnnPool.infer_shape(node, shape), desc = node.inputs[1].owner.op
GpuDnnPool_infer_shape(shape, desc) ==
    LET w == desc.ws
        s == desc.stride
        p == desc.pad
        res == << shape[1][1], shape[1][2],
                  (shape[1][3] + 2 * p[1] - w[1]) \div s[1] + 1,
                  (shape[1][4] + 2 * p[2] - w[2]) \div s[2] + 1 >>
    IN  IF Len(w) > 2
        THEN << Append(res, (shape[1][5] + 2 * p[3] - w[3]) \div s[3] + 1) >>
        ELSE << res >>

\* GpuDnnPool.make_node(img, desc): [exc, val]; the output is typed like img
\* (line 964) and has the shape infer_shape gives for the shape of img
GpuDnnPool_make_node(img, desc) ==
    IF ndim(img) # Len(desc.ws) + 2 THEN [exc |-> "TypeError", val |-> None]
    ELSE IF desc.kind # "GpuDnnPoolDesc" THEN [exc |-> "TypeError", val |-> None]
    ELSE [exc |-> "",
          val |-> Tensor(GpuDnnPool_infer_shape(<<img.shape>>, desc)[1],
                         [kind |-> "GpuDnnPool"], img.dtype)]

\* GpuDnnPoolGrad.make_node(inp, out, out_grad, desc): [exc, val]
GpuDnnPoolGrad_make_node(inp, out, out_grad, desc) ==
    LET nd == Len(desc.ws) + 2
    IN  IF ndim(inp) # nd \/ ndim(out_grad) # nd \/ ndim(out) # nd
        THEN [exc |-> "TypeError", val |-> None]
        ELSE IF desc.kind # "GpuDnnPoolDesc"
        THEN [exc |-> "TypeError", val |-> None]
        ELSE [exc |-> "", val |-> Tensor(inp.shape, [kind |-> "GpuDnnPoolGrad"],
                                         inp.dtype)]

\* what a rule hands back: no replacement, or the accelerated operators built
NoReplacement == [ret |-> "None", nodes |-> <<>>]
Replacement(nodes) == [ret |-> "replacement", nodes |-> nodes]

\* dnn_pool(img, ws, stride, mode, pad): [st, exc, val]
dnn_pool(img, ws, stride, mode, pad, st, e) ==
    LET desc == GpuDnnPoolDesc(ws, stride, mode, pad, st, e)
    IN  IF desc.exc # "" THEN desc
        ELSE LET n == GpuDnnPool_make_node(img, desc.val)
             IN  IF n.exc # "" THEN Raise(desc.st, n.exc, "make_node")
                 ELSE Return(desc.st,
                             Replacement(<<desc.val, [kind |-> "GpuDnnPool"]>>))

\* ------------------------------------------------------------------ softmax
\* GpuDnnSoftmaxBase.__init__(algo, mode) of GpuDnnSoftmax / GpuDnnSoftmaxGrad
GpuDnnSoftmaxBase(kind, algo, mode, st, e) ==
    LET op == [kind |-> kind, algo |-> algo, mode |-> mode]
    IN  IF algo \notin {"fast", "accurate", "log"}
        THEN Raise(st, "AssertionError", "algo")
        ELSE IF algo = "log"
        THEN LET r == version(st, e)
             IN  IF r.exc # "" THEN r
                 ELSE IF r.val < V3
                 THEN Raise(r.st, "RuntimeError", "Need CuDNN v3 for log-softmax")
                 ELSE IF mode \notin {"instance", "channel"}
                 THEN Raise(r.st, "AssertionError", "mode")
                 ELSE Return(r.st, op)
        ELSE IF mode \notin {"instance", "channel"}
        THEN Raise(st, "AssertionError", "mode")
        ELSE Return(st, op)

\* --------------------------------------------------------------- lift rules
\* A rule takes the node it is tried on, the gate and the environment and
\* gives [st, exc, val], val being NoReplacement or a Replacement.

\* return [rval] of the two convolution rules: the replacement is what
\* dnn_conv built
conv_rule_return(r) ==
    IF r.exc # "" THEN r
    ELSE Return(r.st, Replacement(r.val.nodes))

\* mutant of local_conv_dnn_gated: the verdict of the gate is not consulted
local_conv_dnn_gate_ignored(node, a, e) ==
    IF a.exc # "" THEN a
    ELSE IF node.op # "GpuConv" THEN Return(a.st, NoReplacement)
    ELSE IF node.border_mode \notin {BMFull, BMValid}
    THEN Return(a.st, NoReplacement)
    ELSE conv_rule_return(
             dnn_conv(node.inputs[1], node.inputs[2], node.border_mode,
                      node.subsample, "conv", node.direction_hint,
                      None, None, a.st, e))

\* local_conv_dnn, lines 1195-1207, given what dnn_available() gave (line 1194)
local_conv_dnn_gated(node, a, e) ==
    IF a.exc # "" THEN a
    ELSE IF a.val # "True" THEN Return(a.st, NoReplacement)
    ELSE IF node.op # "GpuConv" THEN Return(a.st, NoReplacement)
    ELSE IF node.border_mode \notin {BMFull, BMValid}
    THEN Return(a.st, NoReplacement)
    ELSE conv_rule_return(
             dnn_conv(node.inputs[1], node.inputs[2], node.border_mode,
                      node.subsample, "conv", node.direction_hint,
                      None, None, a.st, e))

local_conv_dnn(node, st, e) ==
    local_conv_dnn_gated(node, dnn_available(st, e), e)

\* local_conv_dnn_alternative, lines 1215-1238, given what dnn_available()
\* gave (line 1214)
local_conv_dnn_alternative_gated(node, a, e) ==
    IF a.exc # "" THEN a
    ELSE IF a.val # "True" THEN Return(a.st, NoReplacement)
    ELSE IF node.op # "GpuConv" THEN Return(a.st, NoReplacement)
    ELSE IF node.border_mode \notin {BMFull, BMValid}
            \/ node.subsample # <<1, 1>>
    THEN Return(a.st, NoReplacement)
    ELSE conv_rule_return(
             dnn_conv(node.inputs[1], node.inputs[2], node.border_mode,
                      node.subsample, "conv",
                      IF node.border_mode = BMFull THEN "forward!"
                      ELSE IF node.direction_hint = "bprop weights"
                      THEN "forward"
                      ELSE "bprop weights",
                      None, None, a.st, e))

local_conv_dnn_alternative(node, st, e) ==
    local_conv_dnn_alternative_gated(node, dnn_available(st, e), e)

\* img.owner.inputs[0]: the input of the transfer that owns v
owner_input(v) == Tensor(v.shape, NoOwner, v.dtype)

local_pool_dnn_alternative(node, st, e) ==
    LET a == dnn_available(st, e)
    IN  IF a.exc # "" THEN a
        ELSE IF a.val # "True" THEN Return(a.st, NoReplacement)
        ELSE IF ~node.ignore_border THEN Return(a.st, NoReplacement)
        ELSE IF node.inputs[1].owner = NoOwner
        THEN Raise(a.st, "AttributeError", "owner")
        ELSE dnn_pool(owner_input(node.inputs[1]), node.ds, node.st, node.mode,
                      node.padding, a.st, e)

local_pool_dnn_grad_stride(node, st, e) ==
    LET a == dnn_available(st, e)
    IN  IF a.exc # "" THEN a
        ELSE IF a.val # "True" THEN Return(a.st, NoReplacement)
        ELSE IF ~node.ignore_border THEN Return(a.st, NoReplacement)
        ELSE LET desc == GpuDnnPoolDesc(node.ds, node.st, node.mode,
                                        node.padding, a.st, e)
             IN  IF desc.exc # "" THEN desc
                 ELSE LET n == GpuDnnPoolGrad_make_node(node.inputs[1],
                                   node.inputs[2], node.inputs[3], desc.val)
                      IN  IF n.exc # "" THEN Raise(desc.st, n.exc, "make_node")
                          ELSE Return(desc.st,
                                 Replacement(<<desc.val,
                                               [kind |-> "GpuDnnPoolGrad"]>>))

local_avg_pool_dnn_grad_stride(node, st, e) ==
    LET a == dnn_available(st, e)
    IN  IF a.exc # "" THEN a
        ELSE IF a.val # "True" THEN Return(a.st, NoReplacement)
        ELSE IF ~node.ignore_border THEN Return(a.st, NoReplacement)
        ELSE LET cg == node.inputs[2]
                 desc == GpuDnnPoolDesc(node.ds, node.st, node.mode,
                                        node.padding, a.st, e)
             IN  IF desc.exc # "" THEN desc
                 ELSE LET n == GpuDnnPoolGrad_make_node(node.inputs[1], cg, cg,
                                                        desc.val)
                      IN  IF n.exc # "" THEN Raise(desc.st, n.exc, "make_node")
                          ELSE Return(desc.st,
                                 Replacement(<<desc.val,
                                               [kind |-> "GpuDnnPoolGrad"]>>))

local_softmax_dnn(node, st, e) ==
    LET a == dnn_available(st, e)
    IN  IF a.exc # "" THEN a
        ELSE IF a.val # "True" THEN Return(a.st, NoReplacement)
        ELSE IF node.op # "GpuSoftmax" THEN Return(a.st, NoReplacement)
        ELSE IF ndim(node.inputs[1]) # 2
        THEN Raise(a.st, "ValueError", "dimshuffle")
        ELSE LET op == GpuDnnSoftmaxBase("GpuDnnSoftmax", "accurate", "channel",
                                         a.st, e)
             IN  IF op.exc # "" THEN op
                 ELSE Return(op.st, Replacement(<<op.val>>))

\* mutant of local_log_softmax_dnn: the clients of the softmax output are not
\* counted
local_log_softmax_dnn_clients_ignored(node, st, e) ==
    LET a == dnn_available(st, e)
    IN  IF a.exc # "" THEN a
        ELSE IF a.val # "True" THEN Return(a.st, NoReplacement)
        ELSE LET v == version(a.st, e)
             IN  IF v.exc # "" THEN v
                 ELSE IF v.val < V3 THEN Return(v.st, NoReplacement)
                 ELSE IF /\ node.op = "GpuElemwise"
                         /\ node.scalar_op = "Log"
                         /\ node.inputs[1].owner.kind = "GpuDnnSoftmax"
                 THEN LET op == GpuDnnSoftmaxBase("GpuDnnSoftmax", "log",
                                     node.inputs[1].owner.mode, v.st, e)
                      IN  IF op.exc # "" THEN op
                          ELSE Return(op.st, Replacement(
                                   << [kind |-> op.val.kind,
                                       algo |-> op.val.algo,
                                       mode |-> op.val.mode,
                                       inputs |-> node.inputs[1].owner.inputs] >>))
                 ELSE Return(v.st, NoReplacement)

\* local_log_softmax_dnn(node): the replacement is the new softmax applied to
\* the input of the old one
local_log_softmax_dnn(node, st, e) ==
    LET a == dnn_available(st, e)
    IN  IF a.exc # "" THEN a
        ELSE IF a.val # "True" THEN Return(a.st, NoReplacement)
        ELSE LET v == version(a.st, e)
             IN  IF v.exc # "" THEN v
                 ELSE IF v.val < V3 THEN Return(v.st, NoReplacement)
                 ELSE IF /\ node.op = "GpuElemwise"
                         /\ node.scalar_op = "Log"
                         /\ node.inputs[1].owner.kind = "GpuDnnSoftmax"
                         /\ node.inputs[1].nclients = 1
                 THEN LET op == GpuDnnSoftmaxBase("GpuDnnSoftmax", "log",
                                     node.inputs[1].owner.mode, v.st, e)
                      IN  IF op.exc # "" THEN op
                          ELSE Return(op.st, Replacement(
                                   << [kind |-> op.val.kind,
                                       algo |-> op.val.algo,
                                       mode |-> op.val.mode,
                                       inputs |-> node.inputs[1].owner.inputs] >>))
                 ELSE Return(v.st, NoReplacement)

local_softmax_dnn_grad(node, st, e) ==
    LET a == dnn_available(st, e)
    IN  IF a.exc # "" THEN a
        ELSE IF a.val # "True" THEN Return(a.st, NoReplacement)
        ELSE IF node.inputs[1].owner = NoOwner
        THEN Raise(a.st, "AttributeError", "owner")
        ELSE IF ndim(node.inputs[1]) # 2 THEN Return(a.st, NoReplacement)
        ELSE IF node.inputs[2].owner = NoOwner
        THEN Raise(a.st, "AttributeError", "owner")
        ELSE IF ndim(node.inputs[2]) # 2 THEN Return(a.st, NoReplacement)
        ELSE LET op == GpuDnnSoftmaxBase("GpuDnnSoftmaxGrad", "accurate",
                                         "channel", a.st, e)
             IN  IF op.exc # "" THEN op
                 ELSE Return(op.st, Replacement(<<op.val>>))

\* mutant of NoCuDNNRaise_apply: the pass goes on after an unavailable verdict
NoCuDNNRaise_apply_silent(st, e) ==
    LET a == dnn_available(st, e)
    IN  IF a.exc # "" THEN a
        ELSE Return(a.st, None)

\* NoCuDNNRaise.apply(fgraph): [st, exc, val]; the graph is not touched
NoCuDNNRaise_apply(st, e) ==
    LET a == dnn_available(st, e)
    IN  IF a.exc # "" THEN a
        ELSE IF a.val # "True"
        THEN IF a.st.msg = None THEN Raise(a.st, "TypeError", "str + None")
             ELSE Raise(a.st, "AssertionError", a.st.msg)
        ELSE Return(a.st, None)

\* the shapes of the end-to-end scenarios: image [2,3,8,8], kernel [4,3,3,3]
ScenarioImg == <<2, 3, 8, 8>>
ScenarioKern == <<4, 3, 3, 3>>

\* ------------------------------------------------------------ environments
Devices == { <<"c", "u", "d", "a", "0">>, <<"o", "p", "e", "n", "c", "l", "0">> }
BinIds == { <<"s", "m", "_", "2", "0">>, <<"s", "m", "_", "5", "2">> }
Versions == { V2 - 1, V2, V3 - 1, V3, V3Final - 1, V3Final }

\* the two configurations of config.dnn.conv.algo_fwd / algo_bwd considered
Configs == { [fwd |-> "small", bwd |-> "none"], [fwd |-> "fft", bwd |-> "fft"] }

\* the header of a mixed installation: another version than the library's
OtherVersion(lib) == IF lib = V3Final THEN V2 ELSE V3Final

\* an environment; the header has the library's version or, when the
\* installation is mixed, another one
Env(py, dev, bin, comp, lib, mixed, c) ==
    [pygpu |-> py, device |-> dev, bin_id |-> bin, comp |-> comp,
     hdr |-> IF mixed THEN OtherVersion(lib) ELSE lib, lib |-> lib,
     algo_fwd |-> c.fwd, algo_bwd |-> c.bwd]

Cuda0 == <<"c", "u", "d", "a", "0">>
Sm52 == <<"s", "m", "_", "5", "2">>

\* what the probe can find, stage by stage: no pygpu; a device that is not
\* CUDA; a CUDA device of either capability on which the trial compile fails;
\* and one on which it succeeds, with every version, mixed or not
Envs ==
    { Env(FALSE, Cuda0, Sm52, TRUE, V3Final, FALSE, c) : c \in Configs }
    \cup { Env(TRUE, dev, Sm52, TRUE, V3Final, FALSE, c) :
             dev \in Devices, c \in Configs }
    \cup { Env(TRUE, Cuda0, bin, FALSE, V3Final, FALSE, c) :
             bin \in BinIds, c \in Configs }
    \cup { Env(TRUE, Cuda0, bin, TRUE, lib, mixed, c) :
             bin \in BinIds, lib \in Versions, mixed \in BOOLEAN, c \in Configs }

\* the module as imported: dnn_available.avail = None, .msg = None, version.v = None
Gate0 == [avail |-> None, msg |-> None, v |-> NoneV, ncompile |-> 0, nprobe |-> 0]

NoNode == [op |-> "none"]
NoOp == [op |-> "none", node |-> NoNode, pre |-> Gate0, exc |-> "", val |-> None]
Idle == [fn |-> "none"]
NoThreads == <<>>

\* -------------------------------------------------- nodes the rules are tried on
Mat == Tensor(<<2, 3>>, [kind |-> "HostFromGpu"], "float32")
Img4 == Tensor(ScenarioImg, [kind |-> "HostFromGpu"], "float32")
Kern4 == Tensor(ScenarioKern, [kind |-> "HostFromGpu"], "float32")

GpuConvNodes ==
    [op : {"GpuConv"}, inputs : {<<Img4, Kern4>>},
     border_mode : {BMValid, BMFull, BM("tuple", <<1, 1>>)},
     subsample : {<<1, 1>>, <<2, 2>>},
     direction_hint : {None, "bprop weights", "bprop inputs", "forward!"}]

OtherNodes == { [op |-> "GpuDnnConv", inputs |-> <<Img4, Kern4>>] }

PoolParams ==
    [ignore_border : BOOLEAN, ds : {<<2, 2>>}, st : {<<2, 2>>, <<1, 1>>},
     padding : {<<0, 0>>}, mode : {"max", "average_exc_pad"}]

PoolInputs == { Img4, Tensor(ScenarioImg, NoOwner, "float32") }

DownsampleFactorMaxNodes ==
    { [op |-> "DownsampleFactorMax", inputs |-> <<x>>,
       ignore_border |-> q.ignore_border, ds |-> q.ds, st |-> q.st,
       padding |-> q.padding, mode |-> q.mode] :
         x \in PoolInputs, q \in PoolParams }

MaxPoolGradNodes ==
    { [op |-> "MaxPoolGrad", inputs |-> <<Img4, Img4, Img4>>,
       ignore_border |-> q.ignore_border, ds |-> q.ds, st |-> q.st,
       padding |-> q.padding, mode |-> q.mode] : q \in PoolParams }

AveragePoolGradNodes ==
    { [op |-> "AveragePoolGrad", inputs |-> <<Img4, Img4>>,
       ignore_border |-> q.ignore_border, ds |-> q.ds, st |-> q.st,
       padding |-> q.padding, mode |-> q.mode] : q \in PoolParams }

GpuSoftmaxNodes == { [op |-> "GpuSoftmax", inputs |-> <<Mat>>] }

\* an elementwise node on one input, the input owned by `owner` and read by
\* `nclients` nodes; a softmax owner has one input x
SoftmaxOwners ==
    { [kind |-> "GpuDnnSoftmax", algo |-> "accurate", mode |-> m, inputs |-> <<x>>] :
        m \in {"channel", "instance"},
        x \in { Tensor(<<2, 3, 1, 1>>, NoOwner, "float32"),
                Tensor(<<2, 3, 1, 1>>, [kind |-> "GpuContiguous"], "float32") } }
    \cup { [kind |-> "GpuDnnSoftmax", algo |-> "fast", mode |-> "channel",
            inputs |-> <<Tensor(<<2, 3, 1, 1>>, NoOwner, "float32")>>],
           [kind |-> "GpuContiguous", algo |-> "", mode |-> "", inputs |-> <<>>],
           [kind |-> "None", algo |-> "", mode |-> "", inputs |-> <<>>] }

GpuElemwiseNodes ==
    { [op |-> "GpuElemwise", scalar_op |-> f,
       inputs |-> << [shape |-> <<2, 3, 1, 1>>, owner |-> o, nclients |-> n] >>] :
         f \in {"Log", "Exp"}, o \in SoftmaxOwners, n \in 1..2 }

SoftmaxGradNodes ==
    { [op |-> "SoftmaxGrad", inputs |-> <<x, y>>] :
        x \in { Mat, Tensor(<<2, 3>>, NoOwner, "float32") },
        y \in { Mat, Tensor(<<2, 3, 1>>, [kind |-> "HostFromGpu"], "float32") } }

\* --------------------------------------------------------------- operations
\* An operation is one call from the outside: it runs to its end, and `last`
\* keeps the gate before it (pre) and what it returned or raised.
Record(op, node, r) ==
    /\ gate' = r.st
    /\ last' = [op |-> op, node |-> node, pre |-> gate, exc |-> r.exc,
                val |-> r.val]
    /\ first_failed' =
         IF ncalls = 0
         THEN LET a == dnn_available(gate, env)
              IN  IF a.exc # "" \/ a.val # "True" THEN "True" ELSE "False"
         ELSE first_failed
    /\ ncalls' = ncalls + 1
    /\ UNCHANGED <<env, cin, cout, threads>>

Call_dnn_available ==
    /\ ncalls < MaxCalls
    /\ Record("dnn_available", NoNode, dnn_available(gate, env))

Call_version ==
    /\ ncalls < MaxCalls
    /\ Record("version", NoNode, version(gate, env))

Apply_NoCuDNNRaise ==
    /\ ncalls < MaxCalls
    /\ Record("NoCuDNNRaise.apply", NoNode, NoCuDNNRaise_apply(gate, env))

Try_local_conv_dnn ==
    /\ ncalls < MaxCalls
    /\ \E node \in GpuConvNodes \cup OtherNodes :
         Record("local_conv_dnn", node, local_conv_dnn(node, gate, env))

Try_local_conv_dnn_alternative ==
    /\ ncalls < MaxCalls
    /\ \E node \in GpuConvNodes \cup OtherNodes :
         Record("local_conv_dnn_alternative", node,
                local_conv_dnn_alternative(node, gate, env))

Try_local_pool_dnn_alternative ==
    /\ ncalls < MaxCalls
    /\ \E node \in DownsampleFactorMaxNodes :
         Record("local_pool_dnn_alternative", node,
                local_pool_dnn_alternative(node, gate, env))

Try_local_pool_dnn_grad_stride ==
    /\ ncalls < MaxCalls
    /\ \E node \in MaxPoolGradNodes :
         Record("local_pool_dnn_grad_stride", node,
                local_pool_dnn_grad_stride(node, gate, env))

Try_local_avg_pool_dnn_grad_stride ==
    /\ ncalls < MaxCalls
    /\ \E node \in AveragePoolGradNodes :
         Record("local_avg_pool_dnn_grad_stride", node,
                local_avg_pool_dnn_grad_stride(node, gate, env))

Try_local_softmax_dnn ==
    /\ ncalls < MaxCalls
    /\ \E node \in GpuSoftmaxNodes \cup OtherNodes :
         Record("local_softmax_dnn", node, local_softmax_dnn(node, gate, env))

Try_local_log_softmax_dnn ==
    /\ ncalls < MaxCalls
    /\ \E node \in GpuElemwiseNodes \cup OtherNodes :
         Record("local_log_softmax_dnn", node,
                local_log_softmax_dnn(node, gate, env))

\* GpuDnnSoftmax('log', mode): the construction that asks for the version
Construct_GpuDnnSoftmax ==
    /\ ncalls < MaxCalls
    /\ \E m \in {"channel", "instance"} :
         Record("GpuDnnSoftmax",
                [op |-> "GpuDnnSoftmax", algo |-> "log", mode |-> m],
                GpuDnnSoftmaxBase("GpuDnnSoftmax", "log", m, gate, env))

Try_local_softmax_dnn_grad ==
    /\ ncalls < MaxCalls
    /\ \E node \in SoftmaxGradNodes :
         Record("local_softmax_dnn_grad", node,
                local_softmax_dnn_grad(node, gate, env))

InitGate ==
    /\ env \in Envs
    /\ gate = Gate0
    /\ ncalls = 0
    /\ first_failed = None
    /\ last = NoOp
    /\ cin = Idle
    /\ cout = Idle
    /\ threads = NoThreads

NextGate ==
    \/ Call_dnn_available
    \/ Call_version
    \/ Apply_NoCuDNNRaise
    \/ Try_local_conv_dnn
    \/ Try_local_conv_dnn_alternative
    \/ Try_local_pool_dnn_alternative
    \/ Try_local_pool_dnn_grad_stride
    \/ Try_local_avg_pool_dnn_grad_stride
    \/ Try_local_softmax_dnn
    \/ Try_local_log_softmax_dnn
    \/ Try_local_softmax_dnn_grad
    \/ Construct_GpuDnnSoftmax

SpecGate == InitGate /\ [][NextGate]_vars

\* ------------------------------------------------ shape inference, as called
Batch == 2
ChanIn == 3
ChanOut == 4

\* all tuples of length n over S
Tuples(S, n) == [1..n -> S]

ImgShapes(nd) == { <<Batch, ChanIn>> \o sp : sp \in Tuples(1..MaxDim, nd) }
KernShapes(nd) == { <<ChanOut, ChanIn>> \o sp : sp \in Tuples(1..MaxKern, nd) }
PadTuples(nd) == { BM("tuple", t) : t \in Tuples(0..MaxPad, nd) }

ShapeInputs(nd) ==
    [ishape : ImgShapes(nd), kshape : KernShapes(nd),
     border_mode : {BMValid, BMFull} \cup PadTuples(nd),
     subsample : Tuples(1..MaxStride, nd)]

ScenarioShapes ==
    [ishape : {ScenarioImg}, kshape : {ScenarioKern},
     border_mode : {BMValid, BMFull}, subsample : {<<1, 1>>}]

\* an environment in which cuDNN of version v is installed and usable
GoodEnv(v, fwd, bwd) ==
    Env(TRUE, Cuda0, Sm52, TRUE, v, FALSE, [fwd |-> fwd, bwd |-> bwd])

Apply_get_out_shape ==
    /\ cout = Idle
    /\ LET r == get_out_shape(cin.ishape, cin.kshape, cin.border_mode,
                              cin.subsample)
       IN  cout' = [fn |-> "get_out_shape", exc |-> r.exc, val |-> r.val]
    /\ UNCHANGED <<env, gate, ncalls, first_failed, last, cin, threads>>

InitShape ==
    /\ env = GoodEnv(V3Final, "small", "none")
    /\ gate = Gate0
    /\ ncalls = 0
    /\ first_failed = None
    /\ last = NoOp
    /\ cin \in ShapeInputs(2) \cup ShapeInputs(3) \cup ScenarioShapes
    /\ cout = Idle
    /\ threads = NoThreads

NextShape == Apply_get_out_shape

SpecShape == InitShape /\ [][NextShape]_vars

\* ------------------------------------------------------- dnn_conv, as called
Hints == {None, "bprop weights", "forward", "forward!"}

\* 4-D images and kernels with every border mode and stride of the bounds, and
\* 5-D ones of equal extent in the three spatial dimensions
ConvShapes ==
    [img : ImgShapes(2), kerns : KernShapes(2),
     border_mode : {BMValid, BMFull}
                   \cup { BM("tuple", <<p, p>>) : p \in 0..MaxPad }
                   \cup { BM("int", <<p>>) : p \in 0..MaxPad },
     subsample : Tuples(1..MaxStride, 2)]
    \cup
    [img : {ScenarioImg}, kerns : {ScenarioKern},
     border_mode : {BMValid, BMFull}, subsample : {<<1, 1>>}]
    \cup
    { [img |-> <<Batch, ChanIn, x, x, x>>, kerns |-> <<ChanOut, ChanIn, k, k, k>>,
       border_mode |-> bm, subsample |-> <<s, s, s>>] :
        x \in 1..MaxDim, k \in 1..MaxKern, s \in 1..MaxStride,
        bm \in {BMValid, BMFull} \cup { BM("int", <<p>>) : p \in 0..MaxPad } }

AlgoArgs == { [workmem |-> None, algo |-> None], [workmem |-> None, algo |-> "fft"],
              [workmem |-> "large", algo |-> None],
              [workmem |-> "large", algo |-> "none"] }

ConvEnvs == { GoodEnv(v, a.fwd, a.bwd) :
                v \in {V2, V3Final},
                a \in { [fwd |-> "small", bwd |-> "none"],
                        [fwd |-> "fft", bwd |-> "fft"] } }

Apply_dnn_conv ==
    /\ cout = Idle
    /\ LET r == dnn_conv(Tensor(cin.shapes.img, NoOwner, "float32"),
                         Tensor(cin.shapes.kerns, NoOwner, "float32"),
                         cin.shapes.border_mode, cin.shapes.subsample,
                         cin.conv_mode, cin.direction_hint, cin.args.workmem,
                         cin.args.algo, gate, env)
       IN  /\ cout' = [fn |-> "dnn_conv", exc |-> r.exc, val |-> r.val]
           /\ gate' = r.st
    /\ UNCHANGED <<env, ncalls, first_failed, last, cin, threads>>

InitConv ==
    /\ env \in ConvEnvs
    /\ gate = Gate0
    /\ ncalls = 0
    /\ first_failed = None
    /\ last = NoOp
    /\ cin \in [shapes : ConvShapes, conv_mode : {"conv", "cross"},
                direction_hint : Hints, args : AlgoArgs]
    /\ cout = Idle
    /\ threads = NoThreads

NextConv == Apply_dnn_conv

SpecConv == InitConv /\ [][NextConv]_vars

\* ------------------------------------------------------- in-place rules
\* A variable of the graph as the in-place rules see it: its shape, the
\* operator that owns it, len(clients) and its dtype
Var(shape, owner, nclients, dtype) ==
    [shape |-> shape, owner |-> owner, nclients |-> nclients, dtype |-> dtype]

\* the variable v a rule has just built: no node reads it yet
Unused(v) == Var(v.shape, v.owner, 0, v.dtype)

\* mutant of inplace_inputs: the fresh buffer is allocated with the dtype of
\* the first input of the node, not with the dtype of the allocation replaced
inplace_inputs_dtype_of_input(inputs) ==
    IF inputs[3].owner # NoOwner /\ inputs[3].owner.kind = "GpuAllocEmpty"
       /\ inputs[3].nclients > 1
    THEN [inputs EXCEPT ![3] = Unused(GpuAllocEmpty(inputs[1].dtype,
                                                    inputs[3].owner.inputs))]
    ELSE inputs

\* lines 1249-1254 (and 1262-1267, 1275-1280): inputs = list(node.inputs);
\* when GpuAllocEmpty owns input 2 and it has more than one client, input 2
\* is replaced by GpuAllocEmpty(dest.owner.op.dtype)(*dest.owner.inputs)
inplace_inputs(inputs) ==
    IF inputs[3].owner # NoOwner /\ inputs[3].owner.kind = "GpuAllocEmpty"
       /\ inputs[3].nclients > 1
    THEN [inputs EXCEPT ![3] = Unused(GpuAllocEmpty(inputs[3].owner.dtype,
                                                    inputs[3].owner.inputs))]
    ELSE inputs

\* return [Op(algo=node.op.algo, inplace=True)(*inputs)]: op is what the
\* constructor gave
inplace_return(op, inputs) ==
    IF op.exc # "" THEN op
    ELSE IF conv_make_node(op.val, inputs[1], inputs[2], inputs[3],
                           inputs[4], inputs[5], inputs[6]).exc # ""
    THEN conv_apply_node(op.st,
                         conv_make_node(op.val, inputs[1], inputs[2],
                                        inputs[3], inputs[4], inputs[5],
                                        inputs[6]))
    ELSE Return(op.st, [ret |-> "replacement", nodes |-> <<op.val>>,
                        inputs |-> conv_make_node(op.val, inputs[1],
                                       inputs[2], inputs[3], inputs[4],
                                       inputs[5], inputs[6]).inputs])

\* mutant of local_dnn_conv_inplace: the in-place flag of the operator is
\* not looked at
local_dnn_conv_inplace_unflagged(node, st, e) ==
    IF node.op.kind # "GpuDnnConv"
    THEN Return(st, NoReplacement)
    ELSE inplace_return(GpuDnnConv(node.op.algo, TRUE, st, e),
                        inplace_inputs(node.inputs))

local_dnn_conv_inplace(node, st, e) ==
    IF node.op.kind # "GpuDnnConv" \/ node.op.inplace
    THEN Return(st, NoReplacement)
    ELSE inplace_return(GpuDnnConv(node.op.algo, TRUE, st, e),
                        inplace_inputs(node.inputs))

local_dnn_convgw_inplace(node, st, e) ==
    IF node.op.kind # "GpuDnnConvGradW" \/ node.op.inplace
    THEN Return(st, NoReplacement)
    ELSE inplace_return(GpuDnnConvGradW(TRUE, node.op.algo, st, e),
                        inplace_inputs(node.inputs))

local_dnn_convgi_inplace(node, st, e) ==
    IF node.op.kind # "GpuDnnConvGradI" \/ node.op.inplace
    THEN Return(st, NoReplacement)
    ELSE inplace_return(GpuDnnConvGradI(TRUE, node.op.algo, st, e),
                        inplace_inputs(node.inputs))

\* the nodes the rules are tried on: a convolution operator of one of the
\* three kinds, as make_node built it on (img, kerns, output, desc) with the
\* default alpha and beta; img and kerns are float32 or float64, and so is
\* the output buffer, whatever the dtype of img (make_node does not compare
\* them); the buffer is a graph input, or the output of GpuAllocEmpty of its
\* dtype on its shape, or the output of another operator, and has from one
\* client (the node) to MaxClients
MaxClients == 2

DTypes == {"float32", "float64"}

BufferShape == <<2, 4, 6, 6>>

ConvKinds == {"GpuDnnConv", "GpuDnnConvGradW", "GpuDnnConvGradI"}

\* dest.owner for a buffer of dtype d
BufferOwners(d) ==
    { NoOwner, [kind |-> "GpuContiguous"],
      GpuAllocEmpty(d, BufferShape).owner }

Buffers ==
    UNION { { Var(BufferShape, o, n, d) :
                o \in BufferOwners(d), n \in 1..MaxClients } : d \in DTypes }

\* the algorithms an operator of that kind can have been built with
NodeAlgos(k) ==
    IF k = "GpuDnnConv" THEN {"none", "small"} ELSE {"none", "deterministic"}

AllConvNodes ==
    { [op |-> ConvOp(k, a, i),
       inputs |-> conv_make_node(ConvOp(k, a, i),
                      Var(ScenarioImg, NoOwner, 1, dt),
                      Var(ScenarioKern, NoOwner, 1, dt), buffer,
                      GpuDnnConvDesc(BMValid, <<1, 1>>, "conv").val,
                      NoOwner, NoOwner).inputs] :
        k \in ConvKinds, a \in {"none", "small", "deterministic"},
        i \in BOOLEAN, buffer \in Buffers, dt \in DTypes }

ConvNodes == { node \in AllConvNodes : node.op.algo \in NodeAlgos(node.op.kind) }

Rewritten(fn, r) ==
    /\ cout' = [fn |-> fn, exc |-> r.exc, val |-> r.val]
    /\ gate' = r.st
    /\ UNCHANGED <<env, ncalls, first_failed, last, cin, threads>>

Try_local_dnn_conv_inplace ==
    /\ cout = Idle
    /\ Rewritten("local_dnn_conv_inplace",
                 local_dnn_conv_inplace(cin, gate, env))

Try_local_dnn_convgw_inplace ==
    /\ cout = Idle
    /\ Rewritten("local_dnn_convgw_inplace",
                 local_dnn_convgw_inplace(cin, gate, env))

Try_local_dnn_convgi_inplace ==
    /\ cout = Idle
    /\ Rewritten("local_dnn_convgi_inplace",
                 local_dnn_convgi_inplace(cin, gate, env))

\* the graph holds cuDNN operators, so the gate has been opened before
InitGraph ==
    /\ env \in ConvEnvs
    /\ gate = version(Gate0, env).st
    /\ ncalls = 0
    /\ first_failed = None
    /\ last = NoOp
    /\ cin \in ConvNodes
    /\ cout = Idle
    /\ threads = NoThreads

NextGraph ==
    \/ Try_local_dnn_conv_inplace
    \/ Try_local_dnn_convgw_inplace
    \/ Try_local_dnn_convgi_inplace

SpecGraph == InitGraph /\ [][NextGraph]_vars

\* ----------------------------------------------- threads in dnn_available()
\* Each thread calls dnn_available() once.  Nothing in the function takes a
\* lock, so another thread may run between any two of its statements.  A step
\* below is one statement that reads or writes dnn_available.avail,
\* dnn_available.msg or version.v, or one wait in the compiler or in the
\* library; the tests of values no other thread can change (pygpu, the
\* device, the bin_id, the local v) are taken together with the statement
\* before them.
NThreads == 2
Threads == 1..NThreads

Thread0 ==
    [pc |-> "entry", comp |-> FALSE, v |-> NoneV, pv |-> <<NoneV, NoneV>>,
     exc |-> "", val |-> None, cached |-> FALSE]

\* the thread leaves dnn_available(): r = [st, exc, val]
Leave(t, r, cached) ==
    /\ gate' = r.st
    /\ threads' = [threads EXCEPT ![t] = [@ EXCEPT !.pc = "done",
                                             !.exc = r.exc, !.val = r.val,
                                             !.cached = cached]]

\* lines 86 and 93: where the thread goes with the version v
after_version(v) ==
    IF v < V2 \/ (v >= V3 /\ v < V3Final) THEN "reject_avail" ELSE "return"

\* line 36: if dnn_available.avail is not None; then the tests of lines 38,
\* 42 and 48
Thread_entry(t) ==
    /\ threads[t].pc = "entry"
    /\ threads' = [threads EXCEPT ![t].pc =
           IF gate.avail # None THEN "cached"
           ELSE IF \/ ~env.pygpu
                   \/ ~StartsWith(env.device, <<"c", "u", "d", "a">>)
                   \/ StrLess(DropLast2(env.bin_id), <<"3", "0">>)
           THEN "early_msg"
           ELSE "compile"]
    /\ UNCHANGED <<env, gate, ncalls, first_failed, last, cin, cout>>

\* line 37: return dnn_available.avail
Thread_cached(t) ==
    /\ threads[t].pc = "cached"
    /\ Leave(t, dnn_available_cached(gate), TRUE)
    /\ UNCHANGED <<env, ncalls, first_failed, last, cin, cout>>

\* line 39, 43 or 49: dnn_available.msg = ...
Thread_early_msg(t) ==
    /\ threads[t].pc = "early_msg"
    /\ gate' = [gate EXCEPT !.msg =
                   IF ~env.pygpu THEN MsgPyGPU
                   ELSE IF ~StartsWith(env.device, <<"c", "u", "d", "a">>)
                   THEN MsgNotCuda
                   ELSE MsgDevice]
    /\ threads' = [threads EXCEPT ![t].pc = "early_avail"]
    /\ UNCHANGED <<env, ncalls, first_failed, last, cin, cout>>

\* line 40, 44 or 50: dnn_available.avail = False; lines 41 and 45 return
\* False, line 50 falls through to the trial compilation
Thread_early_avail(t) ==
    /\ threads[t].pc = "early_avail"
    /\ IF ~env.pygpu \/ ~StartsWith(env.device, <<"c", "u", "d", "a">>)
       THEN Leave(t, Return([gate EXCEPT !.avail = "False"], "False"), FALSE)
       ELSE /\ gate' = [gate EXCEPT !.avail = "False"]
            /\ threads' = [threads EXCEPT ![t].pc = "compile"]
    /\ UNCHANGED <<env, ncalls, first_failed, last, cin, cout>>

\* lines 71-76: the trial compilation
Thread_compile(t) ==
    /\ threads[t].pc = "compile"
    /\ LET c == try_flags(gate, env)
       IN  /\ gate' = c.st
           /\ threads' = [threads EXCEPT ![t] = [@ EXCEPT !.pc = "store",
                                                    !.comp = c.comp]]
    /\ UNCHANGED <<env, ncalls, first_failed, last, cin, cout>>

\* line 78: dnn_available.avail = comp
Thread_store(t) ==
    /\ threads[t].pc = "store"
    /\ gate' = [gate EXCEPT !.avail = IF threads[t].comp THEN "True"
                                      ELSE "False"]
    /\ threads' = [threads EXCEPT ![t].pc = "test"]
    /\ UNCHANGED <<env, ncalls, first_failed, last, cin, cout>>

\* line 79: if not dnn_available.avail
Thread_test(t) ==
    /\ threads[t].pc = "test"
    /\ threads' = [threads EXCEPT ![t].pc =
           IF gate.avail # "True" THEN "msg_compile" ELSE "version"]
    /\ UNCHANGED <<env, gate, ncalls, first_failed, last, cin, cout>>

\* lines 80-82: dnn_available.msg = "Theano cannot compile with cuDNN ..."
Thread_msg_compile(t) ==
    /\ threads[t].pc = "msg_compile"
    /\ gate' = [gate EXCEPT !.msg = MsgCompile]
    /\ threads' = [threads EXCEPT ![t].pc = "return"]
    /\ UNCHANGED <<env, ncalls, first_failed, last, cin, cout>>

\* line 85, v = version(), up to line 185: if not dnn_available(); the
\* verdict is stored by now, so the inner call returns it at line 37
Thread_version(t) ==
    /\ threads[t].pc = "version"
    /\ threads' = [threads EXCEPT ![t].pc =
           IF dnn_available_cached(gate).val # "True" THEN "unavailable"
           ELSE "version_test"]
    /\ UNCHANGED <<env, gate, ncalls, first_failed, last, cin, cout>>

\* lines 186-188: raise Exception(..., dnn_available.msg)
Thread_unavailable(t) ==
    /\ threads[t].pc = "unavailable"
    /\ Leave(t, Raise(gate, "Exception", gate.msg), FALSE)
    /\ UNCHANGED <<env, ncalls, first_failed, last, cin, cout>>

\* line 190: if version.v is None; otherwise line 199 returns version.v
Thread_version_test(t) ==
    /\ threads[t].pc = "version_test"
    /\ threads' = [threads EXCEPT ![t] =
           IF gate.v = NoneV THEN [@ EXCEPT !.pc = "probe"]
           ELSE [@ EXCEPT !.pc = after_version(gate.v), !.v = gate.v]]
    /\ UNCHANGED <<env, gate, ncalls, first_failed, last, cin, cout>>

\* lines 191-194: f = theano.function(...); v = f()
Thread_probe(t) ==
    /\ threads[t].pc = "probe"
    /\ LET p == DnnVersion(gate, env)
       IN  /\ gate' = p.st
           /\ threads' = [threads EXCEPT ![t] = [@ EXCEPT !.pc = "version_store",
                                                    !.pv = p.v]]
    /\ UNCHANGED <<env, ncalls, first_failed, last, cin, cout>>

\* lines 195-199: the two versions are compared, version.v = v[1]
Thread_version_store(t) ==
    /\ threads[t].pc = "version_store"
    /\ IF threads[t].pv[1] # threads[t].pv[2]
       THEN Leave(t, Raise(gate, "RuntimeError", MsgMixed), FALSE)
       ELSE /\ gate' = [gate EXCEPT !.v = threads[t].pv[2]]
            /\ threads' = [threads EXCEPT ![t] =
                   [@ EXCEPT !.pc = after_version(threads[t].pv[2]),
                             !.v = threads[t].pv[2]]]
    /\ UNCHANGED <<env, ncalls, first_failed, last, cin, cout>>

\* line 87 or 94: dnn_available.avail = False
Thread_reject_avail(t) ==
    /\ threads[t].pc = "reject_avail"
    /\ gate' = [gate EXCEPT !.avail = "False"]
    /\ threads' = [threads EXCEPT ![t].pc = "reject_msg"]
    /\ UNCHANGED <<env, ncalls, first_failed, last, cin, cout>>

\* lines 88-91 or 95-97: dnn_available.msg = ...
Thread_reject_msg(t) ==
    /\ threads[t].pc = "reject_msg"
    /\ gate' = [gate EXCEPT !.msg = IF threads[t].v < V2 THEN MsgOld
                                    ELSE MsgRC]
    /\ threads' = [threads EXCEPT ![t].pc = "reject_raise"]
    /\ UNCHANGED <<env, ncalls, first_failed, last, cin, cout>>

\* line 92 or 98: raise RuntimeError(dnn_available.msg)
Thread_reject_raise(t) ==
    /\ threads[t].pc = "reject_raise"
    /\ Leave(t, Raise(gate, "RuntimeError", gate.msg), FALSE)
    /\ UNCHANGED <<env, ncalls, first_failed, last, cin, cout>>

\* line 100: return dnn_available.avail
Thread_return(t) ==
    /\ threads[t].pc = "return"
    /\ Leave(t, Return(gate, gate.avail), FALSE)
    /\ UNCHANGED <<env, ncalls, first_failed, last, cin, cout>>

InitThreads ==
    /\ env \in Envs
    /\ gate = Gate0
    /\ ncalls = 0
    /\ first_failed = None
    /\ last = NoOp
    /\ cin = Idle
    /\ cout = Idle
    /\ threads = [t \in Threads |-> Thread0]

NextThreads ==
    \/ \E t \in Threads : Thread_entry(t)
    \/ \E t \in Threads : Thread_cached(t)
    \/ \E t \in Threads : Thread_early_msg(t)
    \/ \E t \in Threads : Thread_early_avail(t)
    \/ \E t \in Threads : Thread_compile(t)
    \/ \E t \in Threads : Thread_store(t)
    \/ \E t \in Threads : Thread_test(t)
    \/ \E t \in Threads : Thread_msg_compile(t)
    \/ \E t \in Threads : Thread_version(t)
    \/ \E t \in Threads : Thread_unavailable(t)
    \/ \E t \in Threads : Thread_version_test(t)
    \/ \E t \in Threads : Thread_probe(t)
    \/ \E t \in Threads : Thread_version_store(t)
    \/ \E t \in Threads : Thread_reject_avail(t)
    \/ \E t \in Threads : Thread_reject_msg(t)
    \/ \E t \in Threads : Thread_reject_raise(t)
    \/ \E t \in Threads : Thread_return(t)

SpecThreads == InitThreads /\ [][NextThreads]_vars

\* ------------------------------------------- operators, nodes, grad, shapes
\* empty_like(var) of basic_ops: a new GpuAllocEmpty buffer of var's dtype
\* and shape
empty_like(var) == GpuAllocEmpty(var.dtype, var.shape)

\* gpu_contiguous(var) of basic_ops: the output of a new GpuContiguous node
\* on var, of var's shape and dtype
gpu_contiguous(var) ==
    Tensor(var.shape, [kind |-> "GpuContiguous", inputs |-> <<var>>],
           var.dtype)

\* What a grad method returns, given the variables n1 and n2 that its two
\* applications Op()(a, b, empty_like(x), desc) gave (on the inputs in1 and
\* in2): d1 * alpha, d2 * alpha, top * beta, DisconnectedType()() for desc,
\* grad_not_implemented(self, 4, alpha) and grad_not_implemented(self, 5,
\* beta), and the two nodes made
grad_return(n1, in1, n2, in2, top, inp) ==
    IF n1.exc # "" THEN n1
    ELSE IF n2.exc # "" THEN n2
    ELSE Return(n2.st,
           [grads |-> << [kind |-> "expression", var |-> n1.val,
                          scale |-> "alpha"],
                         [kind |-> "expression", var |-> n2.val,
                          scale |-> "alpha"],
                         [kind |-> "expression", var |-> top,
                          scale |-> "beta"],
                         [kind |-> "DisconnectedType"],
                         [kind |-> "grad_not_implemented", x_pos |-> 4,
                          x |-> inp[5]],
                         [kind |-> "grad_not_implemented", x_pos |-> 5,
                          x |-> inp[6]] >>,
            nodes |-> << [op |-> n1.val.owner, inputs |-> in1],
                         [op |-> n2.val.owner, inputs |-> in2] >>])

\* mutant of GpuDnnConv_grad: the two buffers are exchanged
GpuDnnConv_grad_buffers_exchanged(inp, top, st, e) ==
    grad_return(
        conv_apply(GpuDnnConvGradI(FALSE, None, st, e),
                   inp[2], gpu_contiguous(top), empty_like(inp[2]), inp[4]),
        <<inp[2], gpu_contiguous(top), empty_like(inp[2]), inp[4]>>,
        conv_apply(GpuDnnConvGradW(FALSE, None, st, e),
                   inp[1], gpu_contiguous(top), empty_like(inp[1]), inp[4]),
        <<inp[1], gpu_contiguous(top), empty_like(inp[1]), inp[4]>>,
        gpu_contiguous(top), inp)

\* GpuDnnConv.grad(inp, grads): inp = (img, kerns, output, desc,
\* alpha, beta), top = gpu_contiguous(grads[0])
GpuDnnConv_grad(inp, top, st, e) ==
    grad_return(
        conv_apply(GpuDnnConvGradI(FALSE, None, st, e),
                   inp[2], gpu_contiguous(top), empty_like(inp[1]), inp[4]),
        <<inp[2], gpu_contiguous(top), empty_like(inp[1]), inp[4]>>,
        conv_apply(GpuDnnConvGradW(FALSE, None, st, e),
                   inp[1], gpu_contiguous(top), empty_like(inp[2]), inp[4]),
        <<inp[1], gpu_contiguous(top), empty_like(inp[2]), inp[4]>>,
        gpu_contiguous(top), inp)

\* GpuDnnConvGradW.grad(inp, grads): inp = (img, top, output, desc, alpha,
\* beta), kerns = gpu_contiguous(grads[0])
GpuDnnConvGradW_grad(inp, kerns, st, e) ==
    grad_return(
        conv_apply(GpuDnnConvGradI(FALSE, None, st, e),
                   gpu_contiguous(kerns), inp[2], empty_like(inp[1]), inp[4]),
        <<gpu_contiguous(kerns), inp[2], empty_like(inp[1]), inp[4]>>,
        conv_apply(GpuDnnConv(None, FALSE, st, e),
                   inp[1], gpu_contiguous(kerns), empty_like(inp[2]), inp[4]),
        <<inp[1], gpu_contiguous(kerns), empty_like(inp[2]), inp[4]>>,
        gpu_contiguous(kerns), inp)

\* GpuDnnConvGradI.grad(inp, grads): inp = (kerns, top, output, desc, alpha,
\* beta), img = gpu_contiguous(grads[0])
GpuDnnConvGradI_grad(inp, img, st, e) ==
    grad_return(
        conv_apply(GpuDnnConvGradW(FALSE, None, st, e),
                   gpu_contiguous(img), inp[2], empty_like(inp[1]), inp[4]),
        <<gpu_contiguous(img), inp[2], empty_like(inp[1]), inp[4]>>,
        conv_apply(GpuDnnConv(None, FALSE, st, e),
                   gpu_contiguous(img), inp[1], empty_like(inp[2]), inp[4]),
        <<gpu_contiguous(img), inp[1], empty_like(inp[2]), inp[4]>>,
        gpu_contiguous(img), inp)

\* mutant of GpuDnnConvGradW_connection_pattern: every input is connected
GpuDnnConvGradW_connection_pattern_all == <<<<1>>, <<1>>, <<1>>, <<1>>, <<1>>, <<1>>>>

\* connection_pattern(node) of the three operators: not connected to desc
GpuDnnConv_connection_pattern == <<<<1>>, <<1>>, <<1>>, <<0>>, <<1>>, <<1>>>>

GpuDnnConvGradW_connection_pattern == <<<<1>>, <<1>>, <<1>>, <<0>>, <<1>>, <<1>>>>

GpuDnnConvGradI_connection_pattern == <<<<1>>, <<1>>, <<1>>, <<0>>, <<1>>, <<1>>>>

\* __setstate__(d) of the three operators: self.__dict__.update(d), then the
\* fields d lacks are filled in; d is the pickled __dict__ as a record, and
\* an attribute d does not set is the class default (no destroy_map)
GpuDnnConv_setstate(d, e) ==
    [kind |-> "GpuDnnConv",
     algo |-> IF "algo" \in DOMAIN d THEN d.algo
              ELSE IF "workmem" \in DOMAIN d THEN d.workmem
              ELSE AlgoFwd(e),
     inplace |-> IF "inplace" \in DOMAIN d THEN d.inplace ELSE FALSE,
     destroy_map |-> IF "destroy_map" \in DOMAIN d THEN d.destroy_map ELSE {}]

GpuDnnConvGradW_setstate(d, e) ==
    [kind |-> "GpuDnnConvGradW",
     algo |-> IF "algo" \in DOMAIN d THEN d.algo ELSE AlgoBwd(e),
     inplace |-> IF "inplace" \in DOMAIN d THEN d.inplace ELSE FALSE,
     destroy_map |-> IF "destroy_map" \in DOMAIN d THEN d.destroy_map ELSE {}]

GpuDnnConvGradI_setstate(d, e) ==
    [kind |-> "GpuDnnConvGradI",
     algo |-> IF "algo" \in DOMAIN d THEN d.algo ELSE AlgoBwd(e),
     inplace |-> IF "inplace" \in DOMAIN d THEN d.inplace ELSE FALSE,
     destroy_map |-> IF "destroy_map" \in DOMAIN d THEN d.destroy_map ELSE {}]

\* mutant of local_dnn_conv_alpha_merge: the in-place flag of the matched
\* operator is carried over
local_dnn_conv_alpha_merge_flag_kept(node, inputs, st, e) ==
    inplace_return(GpuDnnConv(node.op.algo, node.op.inplace, st, e), inputs)

\* the alpha-merge rules: return [Op(algo=node.op.algo)(*inputs)]
local_dnn_conv_alpha_merge(node, inputs, st, e) ==
    inplace_return(GpuDnnConv(node.op.algo, FALSE, st, e), inputs)

local_dnn_convw_alpha_merge(node, inputs, st, e) ==
    inplace_return(GpuDnnConvGradW(FALSE, node.op.algo, st, e), inputs)

local_dnn_convi_alpha_merge(node, inputs, st, e) ==
    inplace_return(GpuDnnConvGradI(FALSE, node.op.algo, st, e), inputs)

\* the output-merge rules: inputs[2] goes through gpu_contiguous, then
\* return [Op(algo=node.op.algo)(*inputs)]
local_dnn_conv_output_merge(node, inputs, st, e) ==
    inplace_return(GpuDnnConv(node.op.algo, FALSE, st, e),
                   [inputs EXCEPT ![3] = Unused(gpu_contiguous(inputs[3]))])

local_dnn_convw_output_merge(node, inputs, st, e) ==
    inplace_return(GpuDnnConvGradW(FALSE, node.op.algo, st, e),
                   [inputs EXCEPT ![3] = Unused(gpu_contiguous(inputs[3]))])

local_dnn_convi_output_merge(node, inputs, st, e) ==
    inplace_return(GpuDnnConvGradI(FALSE, node.op.algo, st, e),
                   [inputs EXCEPT ![3] = Unused(gpu_contiguous(inputs[3]))])

\* the states __setstate__ is given: the __dict__ an operator of that kind
\* had when it was pickled, by this version of the class (algo, inplace, and
\* destroy_map when in place) or by an earlier one that had no algo field
\* (GpuDnnConv: workmem) or neither algo nor inplace
PickledStates(k) ==
    { [func_name |-> k], [func_name |-> k, inplace |-> FALSE],
      [func_name |-> k, inplace |-> TRUE, destroy_map |-> {<<0, 2>>}] }
    \cup { [func_name |-> k, algo |-> a, inplace |-> FALSE] : a \in NodeAlgos(k) }
    \cup { [func_name |-> k, algo |-> a, inplace |-> TRUE,
            destroy_map |-> {<<0, 2>>}] : a \in NodeAlgos(k) }
    \cup IF k # "GpuDnnConv" THEN {}
         ELSE { [func_name |-> k, workmem |-> a] : a \in NodeAlgos(k) }
              \cup { [func_name |-> k, workmem |-> a, inplace |-> FALSE] :
                       a \in NodeAlgos(k) }
              \cup { [func_name |-> k, workmem |-> a, inplace |-> TRUE,
                      destroy_map |-> {<<0, 2>>}] : a \in NodeAlgos(k) }

\* GpuDnnPoolGrad.infer_shape(node, shape)
GpuDnnPoolGrad_infer_shape(shape) == << shape[1] >>

\* the largest rank of a tensor handed to make_node
MaxRank == 5

\* the descriptor variable handed to make_node and grad
ConvDescVar == GpuDnnConvDesc(BMValid, <<1, 1>>, "conv").val

Construct_GpuDnnConvDesc ==
    /\ cout = Idle
    /\ cin.fn = "GpuDnnConvDesc"
    /\ Rewritten("GpuDnnConvDesc",
                 conv_apply_node(gate, GpuDnnConvDesc(cin.border_mode,
                                                     cin.subsample,
                                                     cin.conv_mode)))

Construct_GpuDnnPoolDesc ==
    /\ cout = Idle
    /\ cin.fn = "GpuDnnPoolDesc"
    /\ Rewritten("GpuDnnPoolDesc",
                 GpuDnnPoolDesc(cin.ws, cin.stride, cin.mode, cin.pad,
                                gate, env))

Construct_GpuDnnConv ==
    /\ cout = Idle
    /\ cin.fn = "GpuDnnConv"
    /\ Rewritten("GpuDnnConv", GpuDnnConv(cin.algo, cin.inplace, gate, env))

Construct_GpuDnnConvGradW ==
    /\ cout = Idle
    /\ cin.fn = "GpuDnnConvGradW"
    /\ Rewritten("GpuDnnConvGradW",
                 GpuDnnConvGradW(cin.inplace, cin.algo, gate, env))

Construct_GpuDnnConvGradI ==
    /\ cout = Idle
    /\ cin.fn = "GpuDnnConvGradI"
    /\ Rewritten("GpuDnnConvGradI",
                 GpuDnnConvGradI(cin.inplace, cin.algo, gate, env))

Apply_make_node ==
    /\ cout = Idle
    /\ cin.fn = "make_node"
    /\ Rewritten("make_node",
                 conv_apply_node(gate,
                     conv_make_node(cin.op, cin.inputs[1], cin.inputs[2],
                                    cin.inputs[3], cin.inputs[4],
                                    cin.alpha, cin.beta)))

Apply_grad ==
    /\ cout = Idle
    /\ cin.fn = "grad"
    /\ Rewritten("grad",
                 CASE cin.kind = "GpuDnnConv" ->
                          GpuDnnConv_grad(cin.inputs, cin.grad, gate, env)
                   [] cin.kind = "GpuDnnConvGradW" ->
                          GpuDnnConvGradW_grad(cin.inputs, cin.grad, gate, env)
                   [] cin.kind = "GpuDnnConvGradI" ->
                          GpuDnnConvGradI_grad(cin.inputs, cin.grad, gate, env))

Apply_connection_pattern ==
    /\ cout = Idle
    /\ cin.fn = "connection_pattern"
    /\ Rewritten("connection_pattern",
                 Return(gate,
                        CASE cin.kind = "GpuDnnConv" ->
                                 GpuDnnConv_connection_pattern
                          [] cin.kind = "GpuDnnConvGradW" ->
                                 GpuDnnConvGradW_connection_pattern
                          [] cin.kind = "GpuDnnConvGradI" ->
                                 GpuDnnConvGradI_connection_pattern))

Apply_setstate ==
    /\ cout = Idle
    /\ cin.fn = "setstate"
    /\ Rewritten("setstate",
                 Return(gate,
                        CASE cin.kind = "GpuDnnConv" ->
                                 GpuDnnConv_setstate(cin.d, env)
                          [] cin.kind = "GpuDnnConvGradW" ->
                                 GpuDnnConvGradW_setstate(cin.d, env)
                          [] cin.kind = "GpuDnnConvGradI" ->
                                 GpuDnnConvGradI_setstate(cin.d, env)))

\* the alpha_merge decorator calls the rule of the operator's class
Apply_alpha_merge ==
    /\ cout = Idle
    /\ cin.fn = "alpha_merge"
    /\ Rewritten("alpha_merge",
                 CASE cin.node.op.kind = "GpuDnnConv" ->
                          local_dnn_conv_alpha_merge(cin.node, cin.inputs,
                                                     gate, env)
                   [] cin.node.op.kind = "GpuDnnConvGradW" ->
                          local_dnn_convw_alpha_merge(cin.node, cin.inputs,
                                                      gate, env)
                   [] cin.node.op.kind = "GpuDnnConvGradI" ->
                          local_dnn_convi_alpha_merge(cin.node, cin.inputs,
                                                      gate, env))

Apply_output_merge ==
    /\ cout = Idle
    /\ cin.fn = "output_merge"
    /\ Rewritten("output_merge",
                 CASE cin.node.op.kind = "GpuDnnConv" ->
                          local_dnn_conv_output_merge(cin.node, cin.inputs,
                                                      gate, env)
                   [] cin.node.op.kind = "GpuDnnConvGradW" ->
                          local_dnn_convw_output_merge(cin.node, cin.inputs,
                                                       gate, env)
                   [] cin.node.op.kind = "GpuDnnConvGradI" ->
                          local_dnn_convi_output_merge(cin.node, cin.inputs,
                                                       gate, env))

\* the in-place optimizer tries its three rules on the node
Apply_inplace ==
    /\ cout = Idle
    /\ cin.fn = "inplace"
    /\ Rewritten("inplace",
                 CASE cin.node.op.kind = "GpuDnnConv" ->
                          local_dnn_conv_inplace(cin.node, gate, env)
                   [] cin.node.op.kind = "GpuDnnConvGradW" ->
                          local_dnn_convgw_inplace(cin.node, gate, env)
                   [] cin.node.op.kind = "GpuDnnConvGradI" ->
                          local_dnn_convgi_inplace(cin.node, gate, env))

Apply_infer_shape ==
    /\ cout = Idle
    /\ cin.fn = "infer_shape"
    /\ Rewritten("infer_shape",
                 Return(gate,
                        IF cin.op = "GpuDnnPool"
                        THEN GpuDnnPool_infer_shape(cin.shape, cin.desc)
                        ELSE GpuDnnPoolGrad_infer_shape(cin.shape)))

\* The calls under study and their arguments: the two descriptor
\* constructors, on well-formed and on malformed tuples (1 to MaxRank - 1
\* entries, pads from -1, a border mode of another value); the three operator constructors; make_node of an operator on
\* tensors of rank 3 to MaxRank and a convolution or pooling descriptor; grad
\* of a node of each kind, in 4-D and in 5-D; infer_shape of the pooling
\* operators on 4-D and 5-D images.
InitOps ==
    /\ env \in { GoodEnv(v, c.fwd, c.bwd) :
                   v \in {V2, V3 - 1, V3Final}, c \in Configs }
    /\ gate = Gate0
    /\ ncalls = 0
    /\ first_failed = None
    /\ last = NoOp
    /\ cout = Idle
    /\ threads = NoThreads
    /\ \/ cin \in [fn : {"GpuDnnConvDesc"},
                   border_mode :
                       {BMValid, BMFull, BM("other", <<>>)}
                       \cup { BM("int", <<q>>) : q \in (0 - 1)..MaxPad }
                       \cup { BM("tuple", t) :
                                t \in UNION { Tuples((0 - 1)..MaxPad, n) :
                                                n \in 1..(MaxRank - 1) } },
                   subsample : {Repeat(s, n) : s \in 1..MaxStride,
                                               n \in 1..(MaxRank - 1)},
                   conv_mode : {"conv", "cross"}]
       \/ cin \in { [fn |-> "GpuDnnPoolDesc", ws |-> Repeat(2, n),
                     stride |-> Repeat(s, ns), mode |-> m,
                     pad |-> Repeat(q, nq)] :
                      n \in 1..(MaxRank - 1), ns \in 1..(MaxRank - 1),
                      nq \in 1..(MaxRank - 1), s \in 1..MaxStride,
                      q \in 0..MaxPad, m \in {"max", "average"} }
       \/ cin \in [fn : {"GpuDnnConv"}, inplace : BOOLEAN,
                   algo : {None} \cup FwdAlgos]
       \/ cin \in [fn : {"GpuDnnConvGradW", "GpuDnnConvGradI"},
                   inplace : BOOLEAN, algo : {None} \cup BwdAlgos]
       \/ cin \in { [fn |-> "make_node", op |-> ConvOp(k, a, FALSE),
                     inputs |-> << Tensor(Repeat(2, ra), NoOwner, "float32"),
                                   Tensor(Repeat(2, rb), NoOwner, "float32"),
                                   Tensor(Repeat(2, ro), NoOwner, "float32"),
                                   d >>,
                     alpha |-> al, beta |-> NoOwner] :
                      k \in ConvKinds, a \in {"none", "fft"},
                      ra \in 3..MaxRank, rb \in 3..MaxRank, ro \in 3..MaxRank,
                      d \in {ConvDescVar,
                             [kind |-> "GpuDnnPoolDesc", ws |-> <<2, 2>>,
                              stride |-> <<2, 2>>, mode |-> "max",
                              pad |-> <<0, 0>>]},
                      al \in {NoOwner, constant(2, "float32"),
                              Tensor(<<2>>, NoOwner, "float32")} }
       \/ cin \in { [fn |-> "grad", kind |-> k,
                     inputs |-> << Tensor(Repeat(x, n), NoOwner, "float32"),
                                   Tensor(Repeat(y, n), NoOwner, "float32"),
                                   Tensor(Repeat(z, n), NoOwner, "float32"),
                                   ConvDescVar,
                                   ensure_dt(NoOwner, constant(1, "float64"),
                                             "alpha", "float32").val,
                                   ensure_dt(NoOwner, constant(0, "float64"),
                                             "beta", "float32").val >>,
                     grad |-> Tensor(Repeat(z, n), NoOwner, "float32")] :
                      k \in ConvKinds, n \in {4, 5},
                      x \in 1..MaxDim, y \in 1..MaxDim, z \in 1..MaxDim }
       \/ cin \in { [fn |-> "connection_pattern", kind |-> k] : k \in ConvKinds }
       \/ cin \in UNION { { [fn |-> "setstate", kind |-> k, d |-> d] :
                                d \in PickledStates(k) } : k \in ConvKinds }
       \/ cin \in { [fn |-> "alpha_merge", node |-> node,
                     inputs |-> [node.inputs EXCEPT
                                   ![5] = constant(2, node.inputs[1].dtype)]] :
                      node \in ConvNodes }
       \/ cin \in { [fn |-> "output_merge", node |-> node,
                     inputs |-> [node.inputs EXCEPT
                                   ![3] = Var(node.inputs[3].shape, NoOwner, 1,
                                              node.inputs[3].dtype),
                                   ![6] = constant(1, "float64")]] :
                      node \in ConvNodes }
       \/ cin \in { [fn |-> "inplace", node |-> node] : node \in ConvNodes }
       \/ cin \in { [fn |-> "infer_shape", op |-> o,
                     shape |-> << <<Batch, ChanIn>> \o x, x, x >>,
                     desc |-> [kind |-> "GpuDnnPoolDesc", ws |-> w,
                               stride |-> s, mode |-> "max", pad |-> q]] :
                      o \in {"GpuDnnPool", "GpuDnnPoolGrad"},
                      x \in Tuples(1..MaxDim, 2), w \in Tuples(1..MaxKern, 2),
                      s \in Tuples(1..MaxStride, 2), q \in Tuples(0..MaxPad, 2) }
       \/ cin \in { [fn |-> "infer_shape", op |-> o,
                     shape |-> << <<Batch, ChanIn, x[1]>> \o x, x, x >>,
                     desc |-> [kind |-> "GpuDnnPoolDesc", ws |-> <<w[1]>> \o w,
                               stride |-> <<s[1]>> \o s, mode |-> "max",
                               pad |-> <<q[1]>> \o q]] :
                      o \in {"GpuDnnPool", "GpuDnnPoolGrad"},
                      x \in Tuples(1..MaxDim, 2), w \in Tuples(1..MaxKern, 2),
                      s \in Tuples(1..MaxStride, 2), q \in Tuples(0..MaxPad, 2) }
       \/ cin = [fn |-> "infer_shape", op |-> "GpuDnnPool",
                 shape |-> << <<1, 1, 8, 8>> >>,
                 desc |-> [kind |-> "GpuDnnPoolDesc", ws |-> <<2, 2>>,
                           stride |-> <<2, 2>>, mode |-> "max", pad |-> <<0, 0>>]]

NextOps ==
    \/ Construct_GpuDnnConvDesc
    \/ Construct_GpuDnnPoolDesc
    \/ Construct_GpuDnnConv
    \/ Construct_GpuDnnConvGradW
    \/ Construct_GpuDnnConvGradI
    \/ Apply_make_node
    \/ Apply_grad
    \/ Apply_connection_pattern
    \/ Apply_setstate
    \/ Apply_alpha_merge
    \/ Apply_output_merge
    \/ Apply_inplace
    \/ Apply_infer_shape

SpecOps == InitOps /\ [][NextOps]_vars

\* ------------------------------------------------------- applying a rule twice
\* The optimizer hands a node to a rule and, when the rule returns a
\* replacement, later hands the nodes of that replacement to the same rule.
InplaceRuleNames ==
    {"local_dnn_conv_inplace", "local_dnn_convgw_inplace",
     "local_dnn_convgi_inplace"}

\* op_lifter(OP) of opt.py, the decorator of four lift rules: the function r
\* of the rule is called on a node only when the class of its operator is one
\* of OP
op_lifter(OP, node, st, r) ==
    IF node.op \notin OP THEN Return(st, NoReplacement) ELSE r

\* the call of a rule on a node: the decorated function named by the rule
apply_rule(rule, node, st, e) ==
    CASE rule = "local_conv_dnn" -> local_conv_dnn(node, st, e)
      [] rule = "local_conv_dnn_alternative" ->
             local_conv_dnn_alternative(node, st, e)
      [] rule = "local_pool_dnn_alternative" ->
             op_lifter({"DownsampleFactorMax"}, node, st,
                       local_pool_dnn_alternative(node, st, e))
      [] rule = "local_pool_dnn_grad_stride" ->
             op_lifter({"MaxPoolGrad"}, node, st,
                       local_pool_dnn_grad_stride(node, st, e))
      [] rule = "local_avg_pool_dnn_grad_stride" ->
             op_lifter({"AveragePoolGrad"}, node, st,
                       local_avg_pool_dnn_grad_stride(node, st, e))
      [] rule = "local_softmax_dnn" -> local_softmax_dnn(node, st, e)
      [] rule = "local_log_softmax_dnn" -> local_log_softmax_dnn(node, st, e)
      [] rule = "local_softmax_dnn_grad" ->
             op_lifter({"SoftmaxGrad"}, node, st,
                       local_softmax_dnn_grad(node, st, e))
      [] rule = "local_dnn_conv_inplace" -> local_dnn_conv_inplace(node, st, e)
      [] rule = "local_dnn_convgw_inplace" ->
             local_dnn_convgw_inplace(node, st, e)
      [] rule = "local_dnn_convgi_inplace" ->
             local_dnn_convgi_inplace(node, st, e)

\* ---- the graph a lift rule builds.  A variable built by the rule is owned
\* by a node [kind, inputs]; the variables of the matched node are owned by
\* nodes the rule did not build.
\* x.dimshuffle(...): the output, of that shape, of a new GpuDimShuffle node
dimshuffle(x, shape) ==
    Tensor(shape, [kind |-> "GpuDimShuffle", inputs |-> <<x>>], x.dtype)

\* kerns[:, :, ::-1, ::-1]: the output of a new GpuSubtensor node
flipped(x) ==
    Tensor(x.shape, [kind |-> "GpuSubtensor", inputs |-> <<x>>], x.dtype)

\* a Python integer in an expression on symbolic shapes: a constant, which no
\* node owns
PyInt == Tensor(<<>>, NoOwner, "int64")

\* shape_i(x, i, fgraph): the output of a Shape_i node on x
shape_i_var(x, i) ==
    Tensor(<<>>, [kind |-> "Shape_i", i |-> i, inputs |-> <<x>>], "int64")

\* x.shape: the output of a Shape node on x
shape_var(x) ==
    Tensor(<<ndim(x)>>, [kind |-> "Shape", inputs |-> <<x>>], "int64")

\* ishape[i]: the output of a Subtensor node on a symbolic shape
shape_index(s, i) ==
    Tensor(<<>>, [kind |-> "Subtensor", i |-> i, inputs |-> <<s>>], "int64")

\* a + b, a - b, a * b, a // b on integers: a Python integer when both are,
\* and otherwise the output of an Elemwise node
arith(scalar_op, a, b) ==
    IF a.owner = NoOwner /\ b.owner = NoOwner THEN PyInt
    ELSE Tensor(<<>>, [kind |-> "Elemwise", scalar_op |-> scalar_op,
                       inputs |-> <<a, b>>], "int64")

\* GpuDnnConvDesc(...)(kern_shape), lines 249-255: the descriptor variable
desc_var(kern_shape) ==
    [kind |-> "GpuDnnConvDesc",
     owner |-> [kind |-> "GpuDnnConvDesc", inputs |-> <<kern_shape>>]]

\* Op(...)(a, b, out, desc): the output of the node make_node builds, lines
\* 417-421, with the inputs make_node gave it
conv_var(op, a, b, out, desc) ==
    Tensor(out.shape,
           [kind |-> op.kind,
            inputs |-> conv_make_node(op, a, b, out, desc, NoOwner,
                                      NoOwner).inputs],
           out.dtype)

\* lines 784-787: out, from img and kerns as lines 778 and 783 rebound them
dnn_conv_gradw_out(img, kerns) ==
    Tensor(gradw_out_shape(img.shape, kerns.shape),
           [kind |-> "GpuAllocEmpty", dtype |-> img.dtype,
            inputs |-> << shape_i_var(kerns, 1), shape_i_var(img, 1),
                          arith("add", arith("sub", shape_i_var(img, 2),
                                                    shape_i_var(kerns, 2)),
                                PyInt),
                          arith("add", arith("sub", shape_i_var(img, 3),
                                                    shape_i_var(kerns, 3)),
                                PyInt) >>],
           img.dtype)

\* lines 788-791: desc on out.shape, the operator on (img, kerns, out, desc),
\* and the dimshuffle of its output
dnn_conv_gradw_graph(op, img, kerns, out) ==
    dimshuffle(conv_var(op, img, kerns, out, desc_var(shape_var(out))),
               DimShuffle(out.shape, <<1, 0, 2, 3>>))

\* lines 802-806: out, from img and kerns as lines 797 and 798 rebound them
dnn_conv_gradi_out(img, kerns) ==
    Tensor(gradi_out_shape(img.shape, kerns.shape),
           [kind |-> "GpuAllocEmpty", dtype |-> img.dtype,
            inputs |-> << shape_i_var(img, 0), shape_i_var(kerns, 1),
                          arith("sub", arith("add", shape_i_var(img, 2),
                                                    shape_i_var(kerns, 2)),
                                PyInt),
                          arith("sub", arith("add", shape_i_var(img, 3),
                                                    shape_i_var(kerns, 3)),
                                PyInt) >>],
           img.dtype)

\* lines 807-809: desc on kerns.shape and the operator on (kerns, img, out,
\* desc)
dnn_conv_gradi_graph(op, img, kerns) ==
    conv_var(op, kerns, img, dnn_conv_gradi_out(img, kerns),
             desc_var(shape_var(kerns)))

\* get_out_shape on symbolic shapes, lines 466-484 for two spatial
\* dimensions: (x + 2 * pad - k) // s + 1, with pad = k - 1 for 'full' and a
\* Python integer otherwise
get_out_shape_dim(x, k, border_mode) ==
    arith("add",
          arith("int_div",
                arith("sub",
                      arith("add", x,
                            arith("mul", PyInt,
                                  IF border_mode.kind = "full"
                                  THEN arith("sub", k, PyInt) ELSE PyInt)),
                      k),
                PyInt),
          PyInt)

\* lines 819-822: out, allocated with the shape get_out_shape gives on
\* ishape = img.shape and kshape = kerns.shape (lines 449-454 and 482-484)
dnn_conv_fwd_out(img, kerns, ishape, kshape, border_mode, subsample) ==
    Tensor(get_out_shape(img.shape, kerns.shape, border_mode, subsample).val,
           [kind |-> "GpuAllocEmpty", dtype |-> img.dtype,
            inputs |-> << shape_index(ishape, 0), shape_index(kshape, 0),
                          get_out_shape_dim(shape_index(ishape, 2),
                                            shape_index(kshape, 2),
                                            border_mode),
                          get_out_shape_dim(shape_index(ishape, 3),
                                            shape_index(kshape, 3),
                                            border_mode) >>],
           img.dtype)

\* lines 816-823: desc on kerns.shape and the operator on (img, kerns, out,
\* desc), from img and kerns as lines 814 and 815 rebound them
dnn_conv_fwd_graph(op, img, kerns, border_mode, subsample) ==
    conv_var(op, img, kerns,
             dnn_conv_fwd_out(img, kerns, shape_var(img), shape_var(kerns),
                              border_mode, subsample),
             desc_var(shape_var(kerns)))

\* the variable dnn_conv returns, the root of the graph it builds; op is the
\* convolution operator it built, which tells the branch taken
dnn_conv_graph(img, kerns, border_mode, subsample, conv_mode, op) ==
    CASE op.kind = "GpuDnnConvGradW" ->
             dnn_conv_gradw_graph(
                 op,
                 gpu_contiguous(dimshuffle(img, DimShuffle(img.shape,
                                                           <<1, 0, 2, 3>>))),
                 gpu_contiguous(dimshuffle(
                     IF conv_mode = "conv" THEN flipped(kerns) ELSE kerns,
                     DimShuffle(kerns.shape, <<1, 0, 2, 3>>))),
                 dnn_conv_gradw_out(
                     gpu_contiguous(dimshuffle(img, DimShuffle(img.shape,
                                                               <<1, 0, 2, 3>>))),
                     gpu_contiguous(dimshuffle(
                         IF conv_mode = "conv" THEN flipped(kerns) ELSE kerns,
                         DimShuffle(kerns.shape, <<1, 0, 2, 3>>)))))
      [] op.kind = "GpuDnnConvGradI" ->
             dnn_conv_gradi_graph(
                 op, gpu_contiguous(img),
                 gpu_contiguous(dimshuffle(kerns, DimShuffle(kerns.shape,
                                                             <<1, 0, 2, 3>>))))
      [] op.kind = "GpuDnnConv" ->
             dnn_conv_fwd_graph(op, gpu_contiguous(img), gpu_contiguous(kerns),
                                border_mode, subsample)

\* GpuDnnPoolDesc(...)(): the descriptor variable, the output of a node
\* without input
pool_desc_var(desc) ==
    [kind |-> desc.kind, owner |-> [kind |-> desc.kind, inputs |-> <<>>]]

\* dnn_pool(img, ...), lines 1077-1079: the variable returned
dnn_pool_graph(img, desc) ==
    Tensor(GpuDnnPool_make_node(gpu_contiguous(img), desc).val.shape,
           [kind |-> "GpuDnnPool",
            inputs |-> <<gpu_contiguous(img), pool_desc_var(desc)>>],
           img.dtype)

\* GpuDnnPoolGrad()(inp, out, out_grad, desc), lines 1360-1363 and 1385
pool_grad_graph(inp, out, out_grad, desc) ==
    Tensor(inp.shape,
           [kind |-> "GpuDnnPoolGrad",
            inputs |-> <<inp, out, out_grad, pool_desc_var(desc)>>],
           inp.dtype)

\* GpuDnnSoftmax(...)(x) and GpuDnnSoftmaxGrad(...)(dy, sm): the output is
\* typed like the last input
softmax_var(kind, inputs) ==
    Tensor(inputs[Len(inputs)].shape, [kind |-> kind, inputs |-> inputs],
           inputs[Len(inputs)].dtype)

\* lines 1440-1442: an input of the SoftmaxGrad node, or the input of the
\* transfer that owns it
softmax_grad_input(n) ==
    IF n.owner.kind = "HostFromGpu" THEN owner_input(n) ELSE n

\* the variable at the root of the replacement the rule returned for the
\* node: val is what the rule returned
replacement_graph(rule, node, val) ==
    CASE rule \in {"local_conv_dnn", "local_conv_dnn_alternative"} ->
             \* lines 1204-1207 and 1235-1238
             dnn_conv_graph(node.inputs[1], node.inputs[2], node.border_mode,
                            node.subsample, "conv", val.nodes[2])
      [] rule = "local_pool_dnn_alternative" ->
             \* lines 1342-1343
             dnn_pool_graph(gpu_contiguous(owner_input(node.inputs[1])),
                            val.nodes[1])
      [] rule = "local_pool_dnn_grad_stride" ->
             \* lines 1359-1363
             pool_grad_graph(gpu_contiguous(node.inputs[1]),
                             gpu_contiguous(node.inputs[2]),
                             gpu_contiguous(node.inputs[3]), val.nodes[1])
      [] rule = "local_avg_pool_dnn_grad_stride" ->
             \* lines 1379-1385
             pool_grad_graph(gpu_contiguous(node.inputs[1]),
                             gpu_contiguous(node.inputs[2]),
                             gpu_contiguous(node.inputs[2]), val.nodes[1])
      [] rule = "local_softmax_dnn" ->
             \* lines 1394-1398
             dimshuffle(
                 softmax_var("GpuDnnSoftmax",
                     <<gpu_contiguous(dimshuffle(node.inputs[1],
                           node.inputs[1].shape \o <<1, 1>>))>>),
                 node.inputs[1].shape)
      [] rule = "local_log_softmax_dnn" ->
             \* lines 1412-1414
             softmax_var("GpuDnnSoftmax", val.nodes[1].inputs)
      [] rule = "local_softmax_dnn_grad" ->
             \* lines 1439-1449
             dimshuffle(
                 softmax_var("GpuDnnSoftmaxGrad",
                     <<gpu_contiguous(dimshuffle(
                           softmax_grad_input(node.inputs[1]),
                           node.inputs[1].shape \o <<1, 1>>)),
                       gpu_contiguous(dimshuffle(
                           softmax_grad_input(node.inputs[2]),
                           node.inputs[2].shape \o <<1, 1>>))>>),
                 node.inputs[2].shape)

\* the variables of the graph the rule was given, which its replacement
\* reads and did not build
replacement_leaves(rule, node) ==
    CASE rule = "local_pool_dnn_alternative" -> <<owner_input(node.inputs[1])>>
      [] rule = "local_log_softmax_dnn" -> node.inputs[1].owner.inputs
      [] rule = "local_softmax_dnn_grad" ->
             <<softmax_grad_input(node.inputs[1]),
               softmax_grad_input(node.inputs[2])>>
      [] OTHER -> node.inputs

\* the node that owns v, as the optimizer hands it to a lift rule: the class
\* of its operator and its inputs
owner_node(v) == [op |-> v.owner.kind, inputs |-> v.owner.inputs]

\* the nodes that own the variables vs or stand above them, up to the
\* variables in leaves and those no node owns
RECURSIVE nodes_above(_, _)
nodes_above(vs, leaves) ==
    IF Len(vs) = 0 THEN <<>>
    ELSE IF \/ Head(vs).owner = NoOwner
            \/ \E i \in 1..Len(leaves) : leaves[i] = Head(vs)
    THEN nodes_above(Tail(vs), leaves)
    ELSE nodes_above(Head(vs).owner.inputs, leaves)
         \o <<owner_node(Head(vs))>>
         \o nodes_above(Tail(vs), leaves)

\* every node of the replacement subgraph a rule returned for the node: for a
\* lift rule the nodes above the variable it returned; for an in-place rule
\* the node of the new operator and, when the destination was substituted,
\* the GpuAllocEmpty node that owns the new buffer (an in-place rule reads
\* the operator of a node, not only its class)
replacement_nodes(rule, node, val) ==
    IF rule \in InplaceRuleNames
    THEN <<[op |-> val.nodes[1], inputs |-> val.inputs]>>
         \o (IF val.inputs[3] # node.inputs[3]
             THEN <<[op |-> val.inputs[3].owner,
                     inputs |-> val.inputs[3].owner.inputs]>>
             ELSE <<>>)
    ELSE nodes_above(<<replacement_graph(rule, node, val)>>,
                     replacement_leaves(rule, node))

\* the nodes the lift rules are first tried on
LiftInputs ==
    { [rule |-> r, node |-> n] :
        r \in {"local_conv_dnn", "local_conv_dnn_alternative"},
        n \in GpuConvNodes }
    \cup { [rule |-> "local_pool_dnn_alternative", node |-> n] :
             n \in DownsampleFactorMaxNodes }
    \cup { [rule |-> "local_pool_dnn_grad_stride", node |-> n] :
             n \in MaxPoolGradNodes }
    \cup { [rule |-> "local_avg_pool_dnn_grad_stride", node |-> n] :
             n \in AveragePoolGradNodes }
    \cup { [rule |-> "local_softmax_dnn", node |-> n] : n \in GpuSoftmaxNodes }
    \cup { [rule |-> "local_log_softmax_dnn", node |-> n] :
             n \in GpuElemwiseNodes }
    \cup { [rule |-> "local_softmax_dnn_grad", node |-> n] :
             n \in SoftmaxGradNodes }

\* the nodes the in-place rules are first tried on
InplaceInputs ==
    { [rule |-> r, node |-> n] : r \in InplaceRuleNames, n \in ConvNodes }

Apply_rule ==
    /\ cout = Idle
    /\ Rewritten(cin.rule, apply_rule(cin.rule, cin.node, gate, env))

Reapply_rule ==
    /\ cout # Idle
    /\ cout.exc = ""
    /\ cout.val.ret = "replacement"
    /\ last.op = "none"
    /\ \E i \in 1..Len(replacement_nodes(cin.rule, cin.node, cout.val)) :
         /\ last' = [op |-> cin.rule,
                     node |-> replacement_nodes(cin.rule, cin.node,
                                                cout.val)[i],
                     pre |-> gate,
                     exc |-> apply_rule(cin.rule,
                                        replacement_nodes(cin.rule, cin.node,
                                                          cout.val)[i],
                                        gate, env).exc,
                     val |-> apply_rule(cin.rule,
                                        replacement_nodes(cin.rule, cin.node,
                                                          cout.val)[i],
                                        gate, env).val]
         /\ gate' = apply_rule(cin.rule,
                               replacement_nodes(cin.rule, cin.node,
                                                 cout.val)[i],
                               gate, env).st
    /\ UNCHANGED <<env, ncalls, first_failed, cin, cout, threads>>

InitRules ==
    /\ env \in ConvEnvs
    /\ gate = version(Gate0, env).st
    /\ ncalls = 0
    /\ first_failed = None
    /\ last = NoOp
    /\ \/ cin \in LiftInputs
       \/ cin \in InplaceInputs
    /\ cout = Idle
    /\ threads = NoThreads

NextRules ==
    \/ Apply_rule
    \/ Reapply_rule

SpecRules == InitRules /\ [][NextRules]_vars

\* ================================================================== claims
\* ---- C1.  In any sequence of calls of dnn_available() and version() in
\* one process the probe body runs at most once, whatever the first call
\* gave: after every such call the trial compilation has run at most once and
\* the version probe has run at most once.
C1_ProbeAtMostOnce ==
    last.op \in {"dnn_available", "version"} =>
        (gate.ncompile <= 1 /\ gate.nprobe <= 1)

\* ---- C2.  A failed probe is terminal: if the first evaluation of the gate
\* failed (it returned False or raised, the version probe included), the
\* gate stays cached as unavailable with a reason; every later
\* dnn_available() returns False, every later version() raises, and no stage
\* of the probe runs again.
C2_FailedProbeTerminal ==
    (first_failed = "True") =>
        /\ gate.avail = "False"
        /\ gate.msg # None
        /\ ncalls >= 2 =>
             /\ gate.ncompile = last.pre.ncompile
             /\ gate.nprobe = last.pre.nprobe
             /\ last.op = "dnn_available" => (last.exc = "" /\ last.val = "False")
             /\ last.op = "version" => last.exc # ""

\* ---- C3.  When threads call dnn_available() concurrently while the gate
\* is unknown, the probe runs exactly once (one trial compilation, one
\* version probe), and no caller is returned a cached verdict that is changed
\* afterwards: a thread that read "available" from the cache never finds the
\* gate closed later.
C3_ExactlyOnce ==
    /\ gate.ncompile <= 1
    /\ gate.nprobe <= 1
    /\ \A t \in DOMAIN threads :
         (threads[t].pc = "done" /\ threads[t].cached) =>
             threads[t].val = gate.avail

\* the three in-place rules
InplaceRules ==
    {"local_dnn_conv_inplace", "local_dnn_convgw_inplace",
     "local_dnn_convgi_inplace"}

\* ---- C4.  After an in-place rule has rewritten a node, the buffer passed
\* as input 2 of the in-place operator (the one it destroys) has exactly one
\* consumer, the in-place node itself, whatever operator produced the buffer:
\* a buffer the rule kept has no client besides the node that was rewritten,
\* and a buffer the rule allocated has no client yet.
C4_DestroyedBufferHasOneConsumer ==
    (cout.fn \in InplaceRules /\ cout.exc = "" /\ cout.val.ret = "replacement") =>
        /\ cout.val.nodes[1].destroy_map = {<<0, 2>>}
        /\ IF cout.val.inputs[3] = cin.inputs[3]
           THEN cout.val.inputs[3].nclients = 1
           ELSE cout.val.inputs[3].nclients = 0

\* the operator the documented dispatch of dnn_conv selects for cin
C5_Expected ==
    IF cin.shapes.border_mode = BMValid /\ cin.shapes.subsample = <<1, 1>>
       /\ cin.direction_hint = "bprop weights"
    THEN "GpuDnnConvGradW"
    ELSE IF cin.shapes.border_mode = BMFull /\ cin.shapes.subsample = <<1, 1>>
            /\ cin.direction_hint # "forward!"
    THEN "GpuDnnConvGradI"
    ELSE "GpuDnnConv"

\* ---- C5.  dnn_conv selects its lowering from (border_mode, subsample,
\* direction_hint): the weight-gradient operator iff border_mode is 'valid',
\* subsample is (1, 1) and the hint is 'bprop weights'; otherwise the
\* input-gradient operator iff border_mode is 'full', subsample is (1, 1) and
\* the hint is not 'forward!'; otherwise the forward operator.
C5_Lowering ==
    (cout.fn = "dnn_conv" /\ cout.exc = "") => cout.val.conv.kind = C5_Expected

\* a 'full' convolution of stride (1, 1) with the hint 'forward!' went
\* through the forward operator
C5_Witness ==
    /\ cout.fn = "dnn_conv" /\ cout.exc = ""
    /\ cin.shapes.border_mode = BMFull /\ cin.shapes.subsample = <<1, 1>>
    /\ cin.direction_hint = "forward!"
    /\ cout.val.conv.kind = "GpuDnnConv"

\* ---- C6.  get_out_shape with an explicit pad tuple p and stride s, for 2
\* or 3 spatial dimensions, returns [batch, channel_out, ...] with every
\* spatial entry i equal to floor((in[i] + 2*p[i] - kernel[i]) / s[i]) + 1,
\* the kernel extent being taken from the kernel shape.
C6_OutShapeFormula ==
    (cout.fn = "get_out_shape" /\ cin.border_mode.kind = "tuple") =>
        /\ cout.exc = ""
        /\ Len(cout.val) = Len(cin.subsample) + 2
        /\ cout.val[1] = cin.ishape[1]
        /\ cout.val[2] = cin.kshape[1]
        /\ \A i \in 1..Len(cin.subsample) :
              cout.val[2 + i] =
                ((cin.ishape[2 + i] + 2 * cin.border_mode.pad[i]
                  - cin.kshape[2 + i]) \div cin.subsample[i]) + 1

\* what get_out_shape gave on cin is what it gives with border mode bm
C7_SameAs(bm) ==
    LET t == get_out_shape(cin.ishape, cin.kshape, bm, cin.subsample)
    IN  /\ cout.exc = t.exc
        /\ cout.exc = "" => cout.val = t.val

\* ---- C7.  get_out_shape with border_mode 'full' returns what it returns
\* for the explicit pad tuple p[i] = kernel[i] - 1, and with 'valid' what it
\* returns for the all-zero pad tuple, for 2 or 3 spatial dimensions.
C7_NamedPadding ==
    cout.fn = "get_out_shape" =>
        LET nd == Len(cin.subsample)
        IN  /\ cin.border_mode = BMFull =>
                 C7_SameAs(BM("tuple", [i \in 1..nd |-> cin.kshape[2 + i] - 1]))
            /\ cin.border_mode = BMValid =>
                 C7_SameAs(BM("tuple", [i \in 1..nd |-> 0]))

\* ---- C8.  For 4-D shapes [b, c, h, w] and [n, c, kh, kw] with stride (1, 1)
\* the graph dnn_conv builds through the weight-gradient lowering ('valid')
\* and through the input-gradient lowering ('full') has the output shape
\* get_out_shape infers for the forward operator with the same border mode:
\* [b, n, h-kh+1, w-kw+1] for 'valid', [b, n, h+kh-1, w+kw-1] for 'full'.
C8_ShapeAgreement ==
    (/\ cout.fn = "dnn_conv" /\ cout.exc = ""
     /\ cout.val.conv.kind \in {"GpuDnnConvGradW", "GpuDnnConvGradI"}) =>
        LET i == cin.shapes.img
            k == cin.shapes.kerns
            fwd == get_out_shape(i, k, cin.shapes.border_mode, <<1, 1>>)
        IN  /\ fwd.exc = ""
            /\ cout.val.shape = fwd.val
            /\ cout.val.conv.kind = "GpuDnnConvGradW" =>
                 /\ cin.shapes.border_mode = BMValid
                 /\ cout.val.shape = <<i[1], k[1], i[3] - k[3] + 1, i[4] - k[4] + 1>>
            /\ cout.val.conv.kind = "GpuDnnConvGradI" =>
                 /\ cin.shapes.border_mode = BMFull
                 /\ cout.val.shape = <<i[1], k[1], i[3] + k[3] - 1, i[4] + k[4] - 1>>

\* scenario 2: [2,3,8,8] with [4,3,3,3], 'full', through the input gradient,
\* gives [2,4,10,10]
C8_Witness ==
    /\ cout.fn = "dnn_conv" /\ cout.exc = ""
    /\ cin.shapes.img = ScenarioImg /\ cin.shapes.kerns = ScenarioKern
    /\ cout.val.conv.kind = "GpuDnnConvGradI"
    /\ cout.val.shape = <<2, 4, 10, 10>>

\* the eight lift rules
LiftRules ==
    {"local_conv_dnn", "local_conv_dnn_alternative",
     "local_pool_dnn_alternative", "local_pool_dnn_grad_stride",
     "local_avg_pool_dnn_grad_stride", "local_softmax_dnn",
     "local_log_softmax_dnn", "local_softmax_dnn_grad"}

\* ---- C9.  When the gate is cached as unavailable, each of the eight lift
\* rules returns no replacement for any node and builds no accelerated
\* operator or descriptor (and leaves the gate as it was).
C9_RulesAreNoOps ==
    (last.op \in LiftRules /\ last.pre.avail = "False") =>
        /\ last.exc = ""
        /\ last.val = NoReplacement
        /\ gate = last.pre

\* a convolution node that the rule lifts when the gate is open was tried
\* with the gate cached as unavailable
C9_Witness ==
    /\ last.op = "local_conv_dnn"
    /\ last.pre.avail = "False"
    /\ last.node.op = "GpuConv"
    /\ last.node.border_mode = BMValid
    /\ last.val = NoReplacement

\* ---- C10.  NoCuDNNRaise.apply raises an error carrying the reason of the
\* gate whenever the gate reports unavailable (or lets the error of the gate
\* through), and returns without raising when the gate reports available; it
\* never returns normally after an unavailable verdict.
C10_HardFail ==
    last.op = "NoCuDNNRaise.apply" =>
        LET a == dnn_available(last.pre, env)
        IN  /\ gate = a.st
            /\ (a.exc = "" /\ a.val = "False") =>
                 /\ last.exc = "AssertionError"
                 /\ gate.msg # None
                 /\ last.val = gate.msg
            /\ (a.exc = "" /\ a.val = "True") =>
                 (last.exc = "" /\ last.val = None)
            /\ a.exc # "" => (last.exc = a.exc /\ last.val = a.val)
            /\ last.exc = "" => gate.avail = "True"

\* the pass was aborted on a host that is not on a CUDA device
C10_Witness ==
    /\ last.op = "NoCuDNNRaise.apply"
    /\ last.exc = "AssertionError"
    /\ last.val = MsgNotCuda
    /\ gate.avail = "False"

\* the compute capability in the device's bin_id "sm_<major><minor>" is below 3.0
C11_BelowMinimum ==
    StrLess(SubSeq(env.bin_id, 4, 5), <<"3", "0">>)

\* ---- C11.  On a device whose compute capability is below 3.0 the first
\* dnn_available() call leaves the gate cached as unavailable with a reason,
\* whatever the trial compilation gives; and a reason is stored only when
\* the gate is unavailable.
C11_OldDeviceUnavailable ==
    /\ (ncalls >= 1 /\ C11_BelowMinimum) =>
           (gate.avail = "False" /\ gate.msg # None)
    /\ gate.msg # None => gate.avail = "False"

\* the probe reaches the version check: pygpu, a CUDA device of capability
\* 3.0 or more, a successful trial compilation, and one version reported
C12_ProbeReachesVersion ==
    /\ env.pygpu
    /\ StartsWith(env.device, <<"c", "u", "d", "a">>)
    /\ ~C11_BelowMinimum
    /\ env.comp
    /\ env.hdr = env.lib

\* ---- C12.  After a probe in which the device and compile checks pass and
\* the backend reports version v, the gate is cached available iff v >= 2000
\* and not (3000 <= v < 3007); for v < 2000 and for 3000 <= v < 3007 it is
\* cached unavailable with the message of that case, and every later
\* dnn_available() returns False.
C12_VersionValidation ==
    (ncalls >= 1 /\ C12_ProbeReachesVersion) =>
        /\ gate.avail = "True" <=>
             (env.lib >= 2000 /\ ~(env.lib >= 3000 /\ env.lib < 3007))
        /\ gate.avail = "True" => (gate.v = env.lib /\ gate.msg = None)
        /\ env.lib < 2000 => (gate.avail = "False" /\ gate.msg = MsgOld)
        /\ (env.lib >= 3000 /\ env.lib < 3007) =>
             (gate.avail = "False" /\ gate.msg = MsgRC)
        /\ (gate.avail = "False" /\ ncalls >= 2 /\ last.op = "dnn_available") =>
             (last.exc = "" /\ last.val = "False")

\* a release candidate of v3 was rejected and a later dnn_available()
\* returned False
C12_Witness ==
    /\ C12_ProbeReachesVersion
    /\ env.lib = 3006
    /\ ncalls >= 2
    /\ last.op = "dnn_available" /\ last.exc = "" /\ last.val = "False"
    /\ gate.msg = MsgRC

\* both rules lifted the node, to different operators
C13_Differ(default, alt) ==
    (alt.exc = "" /\ alt.val.ret = "replacement") =>
        alt.val.nodes[2].kind # default.nodes[2].kind

\* ---- C13.  For every generic convolution node with border mode 'full' or
\* 'valid' and subsample (1, 1), whatever its direction_hint, the lowering
\* chosen by local_conv_dnn_alternative differs from the one chosen by
\* local_conv_dnn (compared whenever both rules return a replacement).
C13_AlternativeDiffers ==
    (/\ last.op = "local_conv_dnn"
     /\ last.exc = ""
     /\ last.val.ret = "replacement"
     /\ last.node.subsample = <<1, 1>>) =>
        C13_Differ(last.val,
                   local_conv_dnn_alternative(last.node, last.pre, env))

\* ---- C14.  Each of the eight lift rules and each of the three in-place
\* rules is idempotent: applied again to any node of the replacement subgraph
\* it produced (every node it built, from the operator at the root down to
\* the transposes, copies, shape computations, allocation, descriptor and
\* casts under it), it returns no replacement (the result of a lift holds no
\* node of the generic kind, and an in-place rule does not match an operator
\* whose in-place flag is set), it raises nothing and it leaves the gate as
\* it was.
C14_RuleIdempotent ==
    last.op \in LiftRules \cup InplaceRuleNames =>
        /\ last.exc = ""
        /\ last.val.ret = "None"
        /\ gate = last.pre

\* local_conv_dnn lifted a generic convolution to the weight-gradient
\* operator and was applied again to the node of that operator, on its six
\* inputs
C14_Witness ==
    /\ last.op = "local_conv_dnn"
    /\ cin.node.op = "GpuConv"
    /\ cout.fn = "local_conv_dnn" /\ cout.val.ret = "replacement"
    /\ cout.val.nodes[2].kind = "GpuDnnConvGradW"
    /\ last.node.op = "GpuDnnConvGradW"
    /\ Len(last.node.inputs) = 6
    /\ last.node.inputs[3].owner.kind = "GpuAllocEmpty"
    /\ last.val.ret = "None"

\* a descriptor constructor was called for three spatial dimensions
C15_ThreeSpatialDims ==
    \/ cout.fn = "GpuDnnConvDesc" /\ Len(cin.subsample) = 3
    \/ cout.fn = "GpuDnnPoolDesc" /\ Len(cin.ws) = 3

\* ---- C15.  Constructing a descriptor for three spatial dimensions, with
\* GpuDnnConvDesc as with GpuDnnPoolDesc, fails with an error whenever the
\* detected cuDNN version is below 3000, and no descriptor operator is
\* produced.
C15_ThreeDimNeedsV3 ==
    (C15_ThreeSpatialDims /\ env.lib < 3000) => cout.exc # ""

\* the version of cuDNN is fixed when an operator is constructed
C17_NeedsV3 ==
    /\ cout.fn \in ConvKinds
    /\ cin.algo \in V3Algos
    /\ env.lib < 3000

\* ---- C17.  Constructing GpuDnnConv, GpuDnnConvGradW or GpuDnnConvGradI
\* with an algorithm that needs cuDNN v3 (fft, guess_once,
\* guess_on_shape_change, time_once, time_on_shape_change) while the detected
\* version is below 3000 fails with an error instead of yielding an operator.
C17_V3AlgoRejected ==
    C17_NeedsV3 => cout.exc # ""

\* the three tensors have one rank, 4 or 5, and the descriptor is a
\* convolution descriptor
C16_Acceptable ==
    /\ ndim(cin.inputs[1]) \in {4, 5}
    /\ ndim(cin.inputs[2]) = ndim(cin.inputs[1])
    /\ ndim(cin.inputs[3]) = ndim(cin.inputs[1])
    /\ cin.inputs[4].kind = "GpuDnnConvDesc"

\* ---- C16.  make_node of GpuDnnConv, GpuDnnConvGradW and GpuDnnConvGradI
\* produces a node only if its three tensor arguments have the same rank, 4
\* or 5, and the descriptor is a convolution descriptor; otherwise it raises
\* and no node is created.
C16_MakeNodeRanks ==
    cout.fn = "make_node" =>
        /\ cout.exc = "" =>
             /\ C16_Acceptable
             /\ cout.val.owner = cin.op
             /\ cout.val.shape = cin.inputs[3].shape
        /\ ~C16_Acceptable => cout.exc \in {"TypeError", "ValueError"}

\* make_node of the input-gradient operator made a node on 5-D tensors, and
\* the same call with an output of another rank raises
C16_Witness ==
    /\ cout.fn = "make_node" /\ cout.exc = ""
    /\ cin.op.kind = "GpuDnnConvGradI"
    /\ ndim(cin.inputs[1]) = 5
    /\ conv_make_node(cin.op, cin.inputs[1], cin.inputs[2],
                      Tensor(Repeat(2, 4), NoOwner, "float32"), cin.inputs[4],
                      cin.alpha, cin.beta).exc
         = "TypeError"

\* ---- C18.  One grad call on a forward, weight-gradient or input-gradient
\* node creates exactly one application of each of the other two operator
\* kinds; both use the descriptor of the node and a fresh empty buffer shaped
\* like the input being differentiated, and each result is scaled by alpha;
\* nothing else is built (grad is not applied to the created nodes).
C18_GradPair ==
    (cout.fn = "grad" /\ cout.exc = "") =>
        /\ Len(cout.val.nodes) = 2
        /\ { cout.val.nodes[i].op.kind : i \in 1..2 } = ConvKinds \ {cin.kind}
        /\ cout.val.nodes[1].op.kind # cout.val.nodes[2].op.kind
        /\ \A i \in 1..2 :
             /\ cout.val.nodes[i].inputs[4] = cin.inputs[4]
             /\ cout.val.nodes[i].inputs[3].owner.kind = "GpuAllocEmpty"
             /\ cout.val.nodes[i].inputs[3].shape = cin.inputs[i].shape
             /\ cout.val.grads[i].var.owner = cout.val.nodes[i].op
             /\ cout.val.grads[i].var.shape = cin.inputs[i].shape
             /\ cout.val.grads[i].scale = "alpha"

\* grad of a forward node whose image and kernels have different shapes
\* returned
C18_Witness ==
    /\ cout.fn = "grad" /\ cout.exc = ""
    /\ cin.kind = "GpuDnnConv"
    /\ cin.inputs[1].shape # cin.inputs[2].shape
    /\ cout.val.nodes[1].op.kind = "GpuDnnConvGradI"
    /\ cout.val.nodes[2].op.kind = "GpuDnnConvGradW"

\* floor(a / b) for b >= 1: the integer q with q * b <= a < (q + 1) * b
C20_Floor(a, b) ==
    CHOOSE q \in (IF a < 0 THEN a ELSE 0)..(IF a < 0 THEN 0 ELSE a) :
        q * b <= a /\ a < (q + 1) * b

\* ---- C20.  GpuDnnPool.infer_shape returns the batch and channel sizes
\* unchanged and each spatial entry as floor((in + 2p - w) / s) + 1, for 2 or
\* 3 spatial dimensions (window (2, 2), stride (2, 2), pad (0, 0) on
\* [1, 1, 8, 8] gives [1, 1, 4, 4]); GpuDnnPoolGrad.infer_shape returns the
\* shape of the pooling input.
C20_PoolShapes ==
    cout.fn = "infer_shape" =>
        IF cin.op = "GpuDnnPool"
        THEN /\ Len(cout.val) = 1
             /\ Len(cout.val[1]) = Len(cin.desc.ws) + 2
             /\ cout.val[1][1] = cin.shape[1][1]
             /\ cout.val[1][2] = cin.shape[1][2]
             /\ \A i \in 1..Len(cin.desc.ws) :
                  cout.val[1][i + 2] =
                      C20_Floor(cin.shape[1][i + 2] + 2 * cin.desc.pad[i]
                                  - cin.desc.ws[i],
                                cin.desc.stride[i]) + 1
        ELSE cout.val = << cin.shape[1] >>

\* the 8 x 8 image pooled by (2, 2) windows at stride (2, 2) gives 4 x 4
C20_Witness ==
    /\ cout.fn = "infer_shape"
    /\ cin.op = "GpuDnnPool"
    /\ cin.shape[1] = <<1, 1, 8, 8>>
    /\ cin.desc.ws = <<2, 2>> /\ cin.desc.stride = <<2, 2>>
    /\ cin.desc.pad = <<0, 0>>
    /\ cout.val = << <<1, 1, 4, 4>> >>

\* ---- C19.  local_log_softmax_dnn returns a replacement only when the gate
\* is available with a version of at least 3000 and the node is an
\* elementwise log whose input is produced by GpuDnnSoftmax and has exactly
\* one consumer; the replacement is a single GpuDnnSoftmax with algo 'log',
\* the mode of the old softmax and the input of the old softmax.
\* Constructing a softmax with algo 'log' on a version below 3000 fails.
C19_LogSoftmax ==
    /\ (/\ last.op = "local_log_softmax_dnn"
        /\ last.exc = ""
        /\ last.val.ret = "replacement") =>
           /\ gate.avail = "True"
           /\ gate.v >= 3000
           /\ last.node.op = "GpuElemwise"
           /\ last.node.scalar_op = "Log"
           /\ last.node.inputs[1].owner.kind = "GpuDnnSoftmax"
           /\ last.node.inputs[1].nclients = 1
           /\ Len(last.val.nodes) = 1
           /\ last.val.nodes[1].kind = "GpuDnnSoftmax"
           /\ last.val.nodes[1].algo = "log"
           /\ last.val.nodes[1].mode = last.node.inputs[1].owner.mode
           /\ last.val.nodes[1].inputs = last.node.inputs[1].owner.inputs
    /\ (/\ last.op = "GpuDnnSoftmax"
        /\ last.node.algo = "log"
        /\ last.exc = "") => gate.v >= 3000
    /\ (/\ last.op = "GpuDnnSoftmax"
        /\ last.node.algo = "log"
        /\ env.hdr = env.lib
        /\ env.lib < 3000) => last.exc # ""

\* on cuDNN 3007 the log of an 'instance' softmax read by nobody else was
\* replaced by one log-softmax in mode 'instance'
C19_Witness ==
    /\ last.op = "local_log_softmax_dnn"
    /\ last.exc = ""
    /\ last.val.ret = "replacement"
    /\ env.lib = 3007
    /\ last.node.inputs[1].owner.mode = "instance"
    /\ last.val.nodes[1].mode = "instance"
    /\ last.val.nodes[1].algo = "log"

\* the arguments of GpuDnnConvDesc that the constructor must refuse
C21_BadConvArgs ==
    \/ cin.border_mode.kind = "tuple"
         /\ Len(cin.border_mode.pad) # Len(cin.subsample)
    \/ Len(cin.subsample) \notin {2, 3}
    \/ cin.border_mode.kind \in {"tuple", "int"}
         /\ \E i \in 1..Len(cin.border_mode.pad) : cin.border_mode.pad[i] < 0
    \/ cin.border_mode.kind \notin {"tuple", "int", "valid", "full"}

\* the arguments of GpuDnnPoolDesc that the constructor must refuse
C21_BadPoolArgs ==
    \/ Len(cin.pad) # Len(cin.stride)
    \/ Len(cin.pad) # Len(cin.ws)
    \/ Len(cin.ws) \notin {2, 3}

\* ---- C21.  Constructing GpuDnnConvDesc or GpuDnnPoolDesc fails, before any
\* descriptor operator exists (and before the library is probed), whenever
\* the pad tuple and the stride tuple differ in length (for pooling also the
\* window tuple), whenever the number of spatial dimensions is not 2 or 3,
\* and for convolution whenever a pad is negative or the border mode is
\* neither a tuple, an integer, 'valid' nor 'full'; an integer pad is
\* expanded to one entry per stride dimension.
C21_DescriptorValidation ==
    /\ cout.fn = "GpuDnnConvDesc" =>
         /\ C21_BadConvArgs => (cout.exc \in {"AssertionError", "ValueError"}
                                /\ gate = Gate0)
         /\ (cout.exc = "" /\ cin.border_mode.kind = "int") =>
              /\ cout.val.border_mode.kind = "tuple"
              /\ Len(cout.val.border_mode.pad) = Len(cin.subsample)
              /\ \A i \in 1..Len(cin.subsample) :
                   cout.val.border_mode.pad[i] = cin.border_mode.pad[1]
    /\ cout.fn = "GpuDnnPoolDesc" =>
         (C21_BadPoolArgs => (cout.exc = "AssertionError" /\ gate = Gate0))

\* a pad tuple of the right length with a negative entry was refused
C21_Witness ==
    /\ cout.fn = "GpuDnnConvDesc"
    /\ cin.border_mode.kind = "tuple"
    /\ Len(cin.border_mode.pad) = Len(cin.subsample)
    /\ Len(cin.subsample) = 2
    /\ cin.border_mode.pad[2] < 0
    /\ cout.exc = "ValueError"

\* the algorithm asked of dnn_conv: algo, or the deprecated workmem
C22_Asked ==
    IF cin.args.workmem # None THEN cin.args.workmem ELSE cin.args.algo

\* ---- C22.  The algorithm argument of dnn_conv is the algorithm of the
\* convolution operator at the root of the graph it returns, for each of the
\* three lowerings; when both algo and workmem are given the call fails
\* before building any node, and workmem alone is used as algo.
C22_AlgoHonoured ==
    cout.fn = "dnn_conv" =>
        /\ (cin.args.workmem # None /\ cin.args.algo # None) =>
             cout.exc = "ValueError"
        /\ (cout.exc = "" /\ C22_Asked # None) =>
             cout.val.conv.algo = C22_Asked

\* the rule substitutes the buffer: GpuAllocEmpty owns it and it has more
\* than one client
C23_Shared ==
    /\ cin.inputs[3].owner.kind = "GpuAllocEmpty"
    /\ cin.inputs[3].nclients > 1

\* ---- C23.  The node an in-place rule produces has the operator kind and
\* the algorithm of the matched node and the same inputs 0, 1, 3, 4 and 5;
\* input 2 is the same variable unless GpuAllocEmpty owns it and it has more
\* than one client, and then it is another variable, with no client yet: the
\* output of a GpuAllocEmpty of the dtype of the allocation that owns the
\* original buffer, applied to the shape inputs of that allocation, so that
\* it has the dtype and the shape of the original buffer.  The matched node
\* is the argument cin of the rule, which no rule assigns: after the rule its
\* buffer still has its owner and its clients.
C23_InplaceFrame ==
    (cout.fn \in InplaceRules /\ cout.exc = "" /\ cout.val.ret = "replacement") =>
        /\ cout.val.nodes[1].kind = cin.op.kind
        /\ cout.val.nodes[1].algo = cin.op.algo
        /\ Len(cout.val.inputs) = Len(cin.inputs)
        /\ \A i \in {1, 2, 4, 5, 6} : cout.val.inputs[i] = cin.inputs[i]
        /\ IF C23_Shared
           THEN /\ cout.val.inputs[3] # cin.inputs[3]
                /\ cout.val.inputs[3].nclients = 0
                /\ cout.val.inputs[3].owner.kind = "GpuAllocEmpty"
                /\ cout.val.inputs[3].owner.dtype = cin.inputs[3].owner.dtype
                /\ cout.val.inputs[3].owner.inputs = cin.inputs[3].owner.inputs
                /\ cout.val.inputs[3].dtype = cin.inputs[3].dtype
                /\ cout.val.inputs[3].shape = cin.inputs[3].shape
           ELSE cout.val.inputs[3] = cin.inputs[3]

\* the weight-gradient rule replaced a shared float64 allocation read by a
\* node on float32 images (the buffer and the image differ in dtype) by a
\* float64 allocation
C23_Witness ==
    /\ cout.fn = "local_dnn_convgw_inplace"
    /\ cout.exc = ""
    /\ cout.val.ret = "replacement"
    /\ C23_Shared
    /\ cin.inputs[1].dtype = "float32"
    /\ cin.inputs[3].dtype = "float64"
    /\ cin.inputs[3].owner.dtype = "float64"
    /\ cout.val.inputs[3].dtype = "float64"
    /\ cout.val.inputs[3].owner.dtype = "float64"
    /\ cout.val.inputs[3].nclients = 0
    /\ cout.val.inputs[6] = cin.inputs[6]
    /\ cin.inputs[6].owner.kind = "Cast"

\* the connection pattern of the operator of that kind
C24_Mask(kind) ==
    CASE kind = "GpuDnnConv" -> GpuDnnConv_connection_pattern
      [] kind = "GpuDnnConvGradW" -> GpuDnnConvGradW_connection_pattern
      [] kind = "GpuDnnConvGradI" -> GpuDnnConvGradI_connection_pattern

\* ---- C24.  For the three convolution operators connection_pattern marks
\* every input connected except the descriptor (position 3), and grad returns
\* gradient expressions for positions 0, 1 and 2, the disconnected marker for
\* position 3 and not-implemented placeholders for alpha and beta (positions
\* 4 and 5): a position is unconnected in the mask exactly when its gradient
\* is the disconnected marker.
C24_MaskAgreesWithGrad ==
    /\ cout.fn = "connection_pattern" =>
         /\ Len(cout.val) = 6
         /\ \A i \in 1..6 : cout.val[i] = IF i = 4 THEN <<0>> ELSE <<1>>
    /\ (cout.fn = "grad" /\ cout.exc = "") =>
         /\ Len(cout.val.grads) = 6
         /\ \A i \in 1..3 : cout.val.grads[i].kind = "expression"
         /\ cout.val.grads[4].kind = "DisconnectedType"
         /\ \A i \in 5..6 :
              /\ cout.val.grads[i].kind = "grad_not_implemented"
              /\ cout.val.grads[i].x_pos = i - 1
              /\ cout.val.grads[i].x = cin.inputs[i]
         /\ \A i \in 1..6 :
              (C24_Mask(cin.kind)[i] = <<0>>)
                  <=> (cout.val.grads[i].kind = "DisconnectedType")

\* grad of a weight-gradient node returned its six gradients
C24_Witness ==
    /\ cout.fn = "grad" /\ cout.exc = ""
    /\ cin.kind = "GpuDnnConvGradW"
    /\ Len(cout.val.grads) = 6
    /\ cout.val.grads[4].kind = "DisconnectedType"
    /\ cout.val.grads[6].x = cin.inputs[6]
    /\ cin.inputs[6].value = 0
    /\ C24_Mask(cin.kind)[4] = <<0>>

\* the convolution operators the operation that returned has produced
C25_Obtained ==
    IF cout.fn \notin ConvKinds \cup {"setstate", "grad", "alpha_merge",
                                     "output_merge", "inplace"}
    THEN {}
    ELSE IF cout.exc # "" THEN {}
    ELSE CASE cout.fn \in ConvKinds \cup {"setstate"} -> {cout.val}
           [] cout.fn = "grad" -> { cout.val.nodes[i].op : i \in 1..2 }
           [] cout.fn \in {"alpha_merge", "output_merge", "inplace"} ->
                  IF cout.val.ret = "replacement" THEN {cout.val.nodes[1]}
                  ELSE {}
           [] OTHER -> {}

\* ---- C25.  Every convolution operator obtained from a constructor, from
\* an in-place, alpha-merge or output-merge rule, from grad or from
\* __setstate__ declares that output 0 destroys input 2 exactly when its
\* in-place flag is true, and declares nothing otherwise; the operators of
\* grad, alpha-merge and output-merge have the flag false, those of the
\* in-place rules have it true, and a state restored without an in-place
\* field gives the flag false.
C25_DestroyMapIffInplace ==
    \A op \in C25_Obtained :
        /\ op.destroy_map = IF op.inplace THEN {<<0, 2>>} ELSE {}
        /\ cout.fn \in {"grad", "alpha_merge", "output_merge"} => ~op.inplace
        /\ cout.fn = "inplace" => op.inplace
        /\ (cout.fn = "setstate" /\ "inplace" \notin DOMAIN cin.d) =>
             ~op.inplace

\* an alpha-merge rule has rewritten a node whose operator is in place
C25_Witness ==
    /\ cout.fn = "alpha_merge" /\ cout.exc = ""
    /\ cin.node.op.kind = "GpuDnnConv"
    /\ cin.node.op.inplace
    /\ cout.val.ret = "replacement"
    /\ cout.val.nodes[1].destroy_map = {}

====
